---- MODULE Spec2Model ----
(***************************************************************************)
(* Chain specification and EIP-2124 fork identifier of                     *)
(* crates/primitives/src/chain/spec.rs.                                    *)
(*                                                                         *)
(* A ChainSpecBuilder is driven through its setters, build() consumes it   *)
(* into an immutable ChainSpec, and the read-only queries of ChainSpec     *)
(* (fork_id, satisfy, hardfork_fork_id) are then applied to it.            *)
(*                                                                         *)
(* Option<T> is a sequence of length 0 (None) or 1 (Some).  B256 and       *)
(* ForkHash values are sequences of bytes, most significant byte first.    *)
(* u64 values of the runs stay far below 2^31; U256 difficulties are       *)
(* naturals and saturating_sub is written out.                             *)
(***************************************************************************)
EXTENDS Integers, Sequences, FiniteSets, TLC

VARIABLES
    builder,    \* Option<ChainSpecBuilder>: None once build() has consumed it
    spec,       \* Option<ChainSpec>: the spec build() returned, or the static
    head,       \* Option<Head>: the head handed to the query
    call,       \* the query that was called, with its arguments, or NoCall
    result,     \* Option: what the query returned
    cells,      \* the Lazy cell of each well-known spec: state, value, runs
    pc,         \* where each thread is in its access to a well-known spec
    seen        \* Option: the instance each thread's last access returned

lazyvars == <<cells, pc, seen>>
vars == <<builder, spec, head, call, result, cells, pc, seen>>

(***************************************************************************)
(* Bounds of the model.                                                    *)
(***************************************************************************)
MaxBlock == 2        \* block numbers of conditions and heads: 0..MaxBlock
MaxTime == 2         \* timestamps of conditions and heads: 0..MaxTime
MaxTd == 1           \* total difficulties and difficulties: 0..MaxTd
MaxForks == 2        \* entries a builder's hardfork map is grown to
MaxThreads == 2      \* threads that access the well-known specs

None == <<>>
Some(x) == <<x>>
IsSome(o) == Len(o) = 1
Unwrap(o) == o[1]

(***************************************************************************)
(* Hardfork: the enum in its derived (canonical) order, which is the       *)
(* iteration order of BTreeMap<Hardfork, ForkCondition>.                   *)
(***************************************************************************)
HardforkOrder ==
    <<"Frontier", "Homestead", "Dao", "Tangerine", "SpuriousDragon", "Byzantium",
      "Constantinople", "Petersburg", "Istanbul", "MuirGlacier", "Berlin", "London",
      "ArrowGlacier", "GrayGlacier", "Paris", "Shanghai", "Cancun">>

Hardfork == {HardforkOrder[i] : i \in 1..Len(HardforkOrder)}

(***************************************************************************)
(* ForkCondition                                                           *)
(***************************************************************************)
Block(n) == [kind |-> "Block", block |-> n]
TTD(fork_block, total_difficulty) ==
    [kind |-> "TTD", fork_block |-> fork_block, total_difficulty |-> total_difficulty]
Timestamp(t) == [kind |-> "Timestamp", timestamp |-> t]
Never == [kind |-> "Never"]

saturating_sub(a, b) == IF a >= b THEN a - b ELSE 0

\* the block-class pattern without its TTD arm
IsBlockClass_BlockOnly(cond) == cond.kind = "Block"

\* Block(b) or TTD { fork_block: Some(b), .. }: the pattern of active_at_block and fork_id
IsBlockClass(cond) ==
    \/ cond.kind = "Block"
    \/ cond.kind = "TTD" /\ IsSome(cond.fork_block)

BlockOf(cond) == IF cond.kind = "Block" THEN cond.block ELSE Unwrap(cond.fork_block)

\* active_at_block with <= for >=
active_at_block_Before(cond, current_block) ==
    IsBlockClass(cond) /\ current_block <= BlockOf(cond)

active_at_block(cond, current_block) ==
    IsBlockClass(cond) /\ current_block >= BlockOf(cond)

transitions_at_block(cond, current_block) ==
    cond.kind = "Block" /\ current_block = cond.block

\* active_at_ttd that compares the total difficulty of the block itself
active_at_ttd_NoSub(cond, ttd, difficulty) ==
    cond.kind = "TTD" /\ ttd >= cond.total_difficulty

active_at_ttd(cond, ttd, difficulty) ==
    cond.kind = "TTD" /\ saturating_sub(ttd, difficulty) >= cond.total_difficulty

\* active_at_timestamp with = for >=
active_at_timestamp_Exact(cond, timestamp) ==
    cond.kind = "Timestamp" /\ timestamp = cond.timestamp

active_at_timestamp(cond, timestamp) ==
    cond.kind = "Timestamp" /\ timestamp >= cond.timestamp

active_at_head(cond, h) ==
    \/ active_at_block(cond, h.number)
    \/ active_at_timestamp(cond, h.timestamp)
    \/ active_at_ttd(cond, h.total_difficulty, h.difficulty)

\* as_timestamp that also answers for a TTD condition
as_timestamp_TtdToo(cond) ==
    IF cond.kind = "Timestamp" THEN Some(cond.timestamp)
    ELSE IF cond.kind = "TTD" THEN Some(cond.total_difficulty)
    ELSE None

as_timestamp(cond) == IF cond.kind = "Timestamp" THEN Some(cond.timestamp) ELSE None

(***************************************************************************)
(* Head.  DefaultHead is Head::default().                                  *)
(***************************************************************************)
DefaultHead ==
    [number |-> 0, hash |-> 0, timestamp |-> 0, total_difficulty |-> 0, difficulty |-> 0]

(***************************************************************************)
(* ForkHash: CRC-32-IEEE (reflected polynomial 0xEDB88320), kept as its    *)
(* four bytes.  From<B256> hashes the 32 bytes of the genesis hash;        *)
(* AddAssign<u64> resumes the checksum over the 8 big-endian bytes of the  *)
(* activation point.                                                       *)
(***************************************************************************)
XorNibbleTable ==
    <<
      <<0, 1, 2, 3, 4, 5, 6, 7, 8, 9, 10, 11, 12, 13, 14, 15>>,
      <<1, 0, 3, 2, 5, 4, 7, 6, 9, 8, 11, 10, 13, 12, 15, 14>>,
      <<2, 3, 0, 1, 6, 7, 4, 5, 10, 11, 8, 9, 14, 15, 12, 13>>,
      <<3, 2, 1, 0, 7, 6, 5, 4, 11, 10, 9, 8, 15, 14, 13, 12>>,
      <<4, 5, 6, 7, 0, 1, 2, 3, 12, 13, 14, 15, 8, 9, 10, 11>>,
      <<5, 4, 7, 6, 1, 0, 3, 2, 13, 12, 15, 14, 9, 8, 11, 10>>,
      <<6, 7, 4, 5, 2, 3, 0, 1, 14, 15, 12, 13, 10, 11, 8, 9>>,
      <<7, 6, 5, 4, 3, 2, 1, 0, 15, 14, 13, 12, 11, 10, 9, 8>>,
      <<8, 9, 10, 11, 12, 13, 14, 15, 0, 1, 2, 3, 4, 5, 6, 7>>,
      <<9, 8, 11, 10, 13, 12, 15, 14, 1, 0, 3, 2, 5, 4, 7, 6>>,
      <<10, 11, 8, 9, 14, 15, 12, 13, 2, 3, 0, 1, 6, 7, 4, 5>>,
      <<11, 10, 9, 8, 15, 14, 13, 12, 3, 2, 1, 0, 7, 6, 5, 4>>,
      <<12, 13, 14, 15, 8, 9, 10, 11, 4, 5, 6, 7, 0, 1, 2, 3>>,
      <<13, 12, 15, 14, 9, 8, 11, 10, 5, 4, 7, 6, 1, 0, 3, 2>>,
      <<14, 15, 12, 13, 10, 11, 8, 9, 6, 7, 4, 5, 2, 3, 0, 1>>,
      <<15, 14, 13, 12, 11, 10, 9, 8, 7, 6, 5, 4, 3, 2, 1, 0>>
    >>
XorByte(a, b) ==
    16 * XorNibbleTable[(a \div 16) + 1][(b \div 16) + 1]
        + XorNibbleTable[(a % 16) + 1][(b % 16) + 1]

Xor32(x, y) ==
    <<XorByte(x[1], y[1]), XorByte(x[2], y[2]), XorByte(x[3], y[3]), XorByte(x[4], y[4])>>

Not32(x) == <<255 - x[1], 255 - x[2], 255 - x[3], 255 - x[4]>>

CrcTable ==
    <<
      <<0, 0, 0, 0>>, <<119, 7, 48, 150>>, <<238, 14, 97, 44>>, <<153, 9, 81, 186>>,
      <<7, 109, 196, 25>>, <<112, 106, 244, 143>>, <<233, 99, 165, 53>>, <<158, 100, 149, 163>>,
      <<14, 219, 136, 50>>, <<121, 220, 184, 164>>, <<224, 213, 233, 30>>, <<151, 210, 217, 136>>,
      <<9, 182, 76, 43>>, <<126, 177, 124, 189>>, <<231, 184, 45, 7>>, <<144, 191, 29, 145>>,
      <<29, 183, 16, 100>>, <<106, 176, 32, 242>>, <<243, 185, 113, 72>>, <<132, 190, 65, 222>>,
      <<26, 218, 212, 125>>, <<109, 221, 228, 235>>, <<244, 212, 181, 81>>, <<131, 211, 133, 199>>,
      <<19, 108, 152, 86>>, <<100, 107, 168, 192>>, <<253, 98, 249, 122>>, <<138, 101, 201, 236>>,
      <<20, 1, 92, 79>>, <<99, 6, 108, 217>>, <<250, 15, 61, 99>>, <<141, 8, 13, 245>>,
      <<59, 110, 32, 200>>, <<76, 105, 16, 94>>, <<213, 96, 65, 228>>, <<162, 103, 113, 114>>,
      <<60, 3, 228, 209>>, <<75, 4, 212, 71>>, <<210, 13, 133, 253>>, <<165, 10, 181, 107>>,
      <<53, 181, 168, 250>>, <<66, 178, 152, 108>>, <<219, 187, 201, 214>>, <<172, 188, 249, 64>>,
      <<50, 216, 108, 227>>, <<69, 223, 92, 117>>, <<220, 214, 13, 207>>, <<171, 209, 61, 89>>,
      <<38, 217, 48, 172>>, <<81, 222, 0, 58>>, <<200, 215, 81, 128>>, <<191, 208, 97, 22>>,
      <<33, 180, 244, 181>>, <<86, 179, 196, 35>>, <<207, 186, 149, 153>>, <<184, 189, 165, 15>>,
      <<40, 2, 184, 158>>, <<95, 5, 136, 8>>, <<198, 12, 217, 178>>, <<177, 11, 233, 36>>,
      <<47, 111, 124, 135>>, <<88, 104, 76, 17>>, <<193, 97, 29, 171>>, <<182, 102, 45, 61>>,
      <<118, 220, 65, 144>>, <<1, 219, 113, 6>>, <<152, 210, 32, 188>>, <<239, 213, 16, 42>>,
      <<113, 177, 133, 137>>, <<6, 182, 181, 31>>, <<159, 191, 228, 165>>, <<232, 184, 212, 51>>,
      <<120, 7, 201, 162>>, <<15, 0, 249, 52>>, <<150, 9, 168, 142>>, <<225, 14, 152, 24>>,
      <<127, 106, 13, 187>>, <<8, 109, 61, 45>>, <<145, 100, 108, 151>>, <<230, 99, 92, 1>>,
      <<107, 107, 81, 244>>, <<28, 108, 97, 98>>, <<133, 101, 48, 216>>, <<242, 98, 0, 78>>,
      <<108, 6, 149, 237>>, <<27, 1, 165, 123>>, <<130, 8, 244, 193>>, <<245, 15, 196, 87>>,
      <<101, 176, 217, 198>>, <<18, 183, 233, 80>>, <<139, 190, 184, 234>>, <<252, 185, 136, 124>>,
      <<98, 221, 29, 223>>, <<21, 218, 45, 73>>, <<140, 211, 124, 243>>, <<251, 212, 76, 101>>,
      <<77, 178, 97, 88>>, <<58, 181, 81, 206>>, <<163, 188, 0, 116>>, <<212, 187, 48, 226>>,
      <<74, 223, 165, 65>>, <<61, 216, 149, 215>>, <<164, 209, 196, 109>>, <<211, 214, 244, 251>>,
      <<67, 105, 233, 106>>, <<52, 110, 217, 252>>, <<173, 103, 136, 70>>, <<218, 96, 184, 208>>,
      <<68, 4, 45, 115>>, <<51, 3, 29, 229>>, <<170, 10, 76, 95>>, <<221, 13, 124, 201>>,
      <<80, 5, 113, 60>>, <<39, 2, 65, 170>>, <<190, 11, 16, 16>>, <<201, 12, 32, 134>>,
      <<87, 104, 181, 37>>, <<32, 111, 133, 179>>, <<185, 102, 212, 9>>, <<206, 97, 228, 159>>,
      <<94, 222, 249, 14>>, <<41, 217, 201, 152>>, <<176, 208, 152, 34>>, <<199, 215, 168, 180>>,
      <<89, 179, 61, 23>>, <<46, 180, 13, 129>>, <<183, 189, 92, 59>>, <<192, 186, 108, 173>>,
      <<237, 184, 131, 32>>, <<154, 191, 179, 182>>, <<3, 182, 226, 12>>, <<116, 177, 210, 154>>,
      <<234, 213, 71, 57>>, <<157, 210, 119, 175>>, <<4, 219, 38, 21>>, <<115, 220, 22, 131>>,
      <<227, 99, 11, 18>>, <<148, 100, 59, 132>>, <<13, 109, 106, 62>>, <<122, 106, 90, 168>>,
      <<228, 14, 207, 11>>, <<147, 9, 255, 157>>, <<10, 0, 174, 39>>, <<125, 7, 158, 177>>,
      <<240, 15, 147, 68>>, <<135, 8, 163, 210>>, <<30, 1, 242, 104>>, <<105, 6, 194, 254>>,
      <<247, 98, 87, 93>>, <<128, 101, 103, 203>>, <<25, 108, 54, 113>>, <<110, 107, 6, 231>>,
      <<254, 212, 27, 118>>, <<137, 211, 43, 224>>, <<16, 218, 122, 90>>, <<103, 221, 74, 204>>,
      <<249, 185, 223, 111>>, <<142, 190, 239, 249>>, <<23, 183, 190, 67>>, <<96, 176, 142, 213>>,
      <<214, 214, 163, 232>>, <<161, 209, 147, 126>>, <<56, 216, 194, 196>>, <<79, 223, 242, 82>>,
      <<209, 187, 103, 241>>, <<166, 188, 87, 103>>, <<63, 181, 6, 221>>, <<72, 178, 54, 75>>,
      <<216, 13, 43, 218>>, <<175, 10, 27, 76>>, <<54, 3, 74, 246>>, <<65, 4, 122, 96>>,
      <<223, 96, 239, 195>>, <<168, 103, 223, 85>>, <<49, 110, 142, 239>>, <<70, 105, 190, 121>>,
      <<203, 97, 179, 140>>, <<188, 102, 131, 26>>, <<37, 111, 210, 160>>, <<82, 104, 226, 54>>,
      <<204, 12, 119, 149>>, <<187, 11, 71, 3>>, <<34, 2, 22, 185>>, <<85, 5, 38, 47>>,
      <<197, 186, 59, 190>>, <<178, 189, 11, 40>>, <<43, 180, 90, 146>>, <<92, 179, 106, 4>>,
      <<194, 215, 255, 167>>, <<181, 208, 207, 49>>, <<44, 217, 158, 139>>, <<91, 222, 174, 29>>,
      <<155, 100, 194, 176>>, <<236, 99, 242, 38>>, <<117, 106, 163, 156>>, <<2, 109, 147, 10>>,
      <<156, 9, 6, 169>>, <<235, 14, 54, 63>>, <<114, 7, 103, 133>>, <<5, 0, 87, 19>>,
      <<149, 191, 74, 130>>, <<226, 184, 122, 20>>, <<123, 177, 43, 174>>, <<12, 182, 27, 56>>,
      <<146, 210, 142, 155>>, <<229, 213, 190, 13>>, <<124, 220, 239, 183>>, <<11, 219, 223, 33>>,
      <<134, 211, 210, 212>>, <<241, 212, 226, 66>>, <<104, 221, 179, 248>>, <<31, 218, 131, 110>>,
      <<129, 190, 22, 205>>, <<246, 185, 38, 91>>, <<111, 176, 119, 225>>, <<24, 183, 71, 119>>,
      <<136, 8, 90, 230>>, <<255, 15, 106, 112>>, <<102, 6, 59, 202>>, <<17, 1, 11, 92>>,
      <<143, 101, 158, 255>>, <<248, 98, 174, 105>>, <<97, 107, 255, 211>>, <<22, 108, 207, 69>>,
      <<160, 10, 226, 120>>, <<215, 13, 210, 238>>, <<78, 4, 131, 84>>, <<57, 3, 179, 194>>,
      <<167, 103, 38, 97>>, <<208, 96, 22, 247>>, <<73, 105, 71, 77>>, <<62, 110, 119, 219>>,
      <<174, 209, 106, 74>>, <<217, 214, 90, 220>>, <<64, 223, 11, 102>>, <<55, 216, 59, 240>>,
      <<169, 188, 174, 83>>, <<222, 187, 158, 197>>, <<71, 178, 207, 127>>, <<48, 181, 255, 233>>,
      <<189, 189, 242, 28>>, <<202, 186, 194, 138>>, <<83, 179, 147, 48>>, <<36, 180, 163, 166>>,
      <<186, 208, 54, 5>>, <<205, 215, 6, 147>>, <<84, 222, 87, 41>>, <<35, 217, 103, 191>>,
      <<179, 102, 122, 46>>, <<196, 97, 74, 184>>, <<93, 104, 27, 2>>, <<42, 111, 43, 148>>,
      <<180, 11, 190, 55>>, <<195, 12, 142, 161>>, <<90, 5, 223, 27>>, <<45, 2, 239, 141>>
    >>

\* one byte into the running (inverted) checksum
CrcStep(state, byte) ==
    Xor32(CrcTable[XorByte(state[4], byte) + 1], <<0, state[1], state[2], state[3]>>)

RECURSIVE CrcUpdate(_, _, _)
CrcUpdate(state, bytes, i) ==
    IF i > Len(bytes) THEN state
    ELSE LET s == CrcStep(state, bytes[i])
         IN  IF s[1] >= 0 THEN CrcUpdate(s, bytes, i + 1) ELSE s

\* u64::to_be_bytes
to_be_bytes(v) ==
    <<0, 0, 0, 0, v \div 16777216, (v \div 65536) % 256, (v \div 256) % 256, v % 256>>

\* ForkHash::from(genesis_hash)
ForkHashFrom(genesis) == Not32(CrcUpdate(<<255, 255, 255, 255>>, genesis, 1))

\* forkhash += v
ForkHashAdd(hash, v) == Not32(CrcUpdate(Not32(hash), to_be_bytes(v), 1))

(***************************************************************************)
(* Genesis and the genesis block header.                                   *)
(***************************************************************************)
\* Genesis::default(); alloc stands for the fields of the genesis document that
\* no fork changes (alloc, difficulty, gas_limit, nonce, extra_data, ...)
\* ChainConfig::default(): the chain id 1 and no fork field set
DefaultConfig ==
    [chain_id |-> 1,
     homestead_block |-> None, dao_fork_block |-> None, eip150_block |-> None,
     eip155_block |-> None, byzantium_block |-> None, constantinople_block |-> None,
     petersburg_block |-> None, istanbul_block |-> None, muir_glacier_block |-> None,
     berlin_block |-> None, london_block |-> None, arrow_glacier_block |-> None,
     gray_glacier_block |-> None,
     terminal_total_difficulty |-> None, merge_netsplit_block |-> None,
     shanghai_time |-> None, cancun_time |-> None]

DefaultGenesis ==
    [config |-> DefaultConfig,
     timestamp |-> 0, base_fee_per_gas |-> None, blob_gas_used |-> None,
     excess_blob_gas |-> None, alloc |-> "default"]

\* the genesis document of MAINNET (res/genesis/mainnet.json)
MainnetGenesis == [DefaultGenesis EXCEPT !.alloc = "mainnet"]

\* Genesis::with_timestamp
with_timestamp(genesis, timestamp) == [genesis EXCEPT !.timestamp = timestamp]

EIP1559_INITIAL_BASE_FEE == 1000000000

\* ChainSpec::fork: an absent hardfork is Never
fork(s, hf) == IF hf \in DOMAIN s.hardforks THEN s.hardforks[hf] ELSE Never

unwrap_or(o, default) == IF IsSome(o) THEN Unwrap(o) ELSE default

\* an initial base fee that a genesis document sets whatever London is
initial_base_fee_GenesisFirst(s) ==
    IF IsSome(s.genesis.base_fee_per_gas) THEN s.genesis.base_fee_per_gas
    ELSE IF active_at_block(fork(s, "London"), 0) THEN Some(EIP1559_INITIAL_BASE_FEE) ELSE None

initial_base_fee(s) ==
    LET genesis_base_fee == unwrap_or(s.genesis.base_fee_per_gas, EIP1559_INITIAL_BASE_FEE)
    IN  IF active_at_block(fork(s, "London"), 0) THEN Some(genesis_base_fee) ELSE None

\* a header that copies the blob gas fields the genesis document sets whatever
\* Cancun is
genesis_header_CopiesBlobGas(s) ==
    LET cancun == active_at_timestamp(fork(s, "Cancun"), s.genesis.timestamp)
    IN  [number |-> 0,
         state_root |-> s.genesis.alloc,
         timestamp |-> s.genesis.timestamp,
         base_fee_per_gas |-> initial_base_fee(s),
         withdrawals_root |->
             IF active_at_timestamp(fork(s, "Shanghai"), s.genesis.timestamp)
             THEN Some("EMPTY_WITHDRAWALS") ELSE None,
         parent_beacon_block_root |-> IF cancun THEN Some(0) ELSE None,
         blob_gas_used |->
             IF cancun THEN Some(unwrap_or(s.genesis.blob_gas_used, 0))
             ELSE s.genesis.blob_gas_used,
         excess_blob_gas |->
             IF cancun THEN Some(unwrap_or(s.genesis.excess_blob_gas, 0))
             ELSE s.genesis.excess_blob_gas]

\* the fields of the header that depend on the spec; the others are constants
\* or copies of genesis fields the model does not vary
genesis_header(s) ==
    LET cancun == active_at_timestamp(fork(s, "Cancun"), s.genesis.timestamp)
    IN  [number |-> 0,
         state_root |-> s.genesis.alloc,
         timestamp |-> s.genesis.timestamp,
         base_fee_per_gas |-> initial_base_fee(s),
         withdrawals_root |->
             IF active_at_timestamp(fork(s, "Shanghai"), s.genesis.timestamp)
             THEN Some("EMPTY_WITHDRAWALS") ELSE None,
         parent_beacon_block_root |-> IF cancun THEN Some(0) ELSE None,
         blob_gas_used |->
             IF cancun THEN Some(unwrap_or(s.genesis.blob_gas_used, 0)) ELSE None,
         excess_blob_gas |->
             IF cancun THEN Some(unwrap_or(s.genesis.excess_blob_gas, 0)) ELSE None]

OptionCode(o) == IF IsSome(o) THEN 1 + Unwrap(o) ELSE 0

\* the genesis hash the MAINNET static caches
MainnetGenesisHash ==
    <<212, 229, 103, 64, 248, 118, 174, 248, 192, 16, 184, 106, 64, 213, 245, 103,
      69, 161, 24, 208, 144, 106, 52, 230, 154, 236, 140, 13, 177, 203, 143, 163>>

\* the header genesis_header derives from the genesis document of MAINNET
MainnetGenesisHeader ==
    [number |-> 0, state_root |-> "mainnet", timestamp |-> 0, base_fee_per_gas |-> None,
     withdrawals_root |-> None, parent_beacon_block_root |-> None,
     blob_gas_used |-> None, excess_blob_gas |-> None]

\* Header::hash_slow: the hash of the mainnet genesis header is the one MAINNET
\* caches; for other headers, 32 bytes that differ whenever two headers differ
hash_slow(header) ==
    IF header = MainnetGenesisHeader THEN MainnetGenesisHash
    ELSE to_be_bytes(header.timestamp)
            \o to_be_bytes(OptionCode(header.base_fee_per_gas))
            \o to_be_bytes((IF IsSome(header.withdrawals_root) THEN 1 ELSE 0)
                            + (IF IsSome(header.parent_beacon_block_root) THEN 2 ELSE 0)
                            + (IF header.state_root = "mainnet" THEN 4 ELSE 0))
            \o to_be_bytes(256 * OptionCode(header.blob_gas_used)
                            + OptionCode(header.excess_blob_gas))

genesis_hash(s) ==
    IF IsSome(s.genesis_hash) THEN Unwrap(s.genesis_hash) ELSE hash_slow(genesis_header(s))

(***************************************************************************)
(* ChainSpec queries.                                                      *)
(***************************************************************************)
\* the keys of a hardfork map in BTreeMap order
HardforkKeys(hardforks) == SelectSeq(HardforkOrder, LAMBDA hf : hf \in DOMAIN hardforks)

\* ChainSpec::forks_iter: the conditions in canonical hardfork order
forks_iter(s) ==
    LET keys == HardforkKeys(s.hardforks)
    IN  [i \in 1..Len(keys) |-> s.hardforks[keys[i]]]

ForkId(hash, next) == [hash |-> hash, next |-> next]

\* the block pass that takes a Never condition for a fork that is not active yet
RECURSIVE BlockPass_NeverStops(_, _, _, _, _)
BlockPass_NeverStops(conds, i, forkhash, current_applied, h) ==
    IF i > Len(conds)
    THEN [returned |-> FALSE, forkhash |-> forkhash, current_applied |-> current_applied]
    ELSE LET cond == conds[i]
         IN  IF cond = Never
             THEN [returned |-> TRUE, id |-> ForkId(forkhash, 0)]
             ELSE IF IsBlockClass(cond)
             THEN IF active_at_head(cond, h)
                  THEN IF BlockOf(cond) # current_applied
                       THEN LET next_hash == ForkHashAdd(forkhash, BlockOf(cond))
                            IN  IF next_hash[1] >= 0
                                THEN BlockPass_NeverStops(conds, i + 1, next_hash,
                                                          BlockOf(cond), h)
                                ELSE [returned |-> FALSE]
                       ELSE BlockPass_NeverStops(conds, i + 1, forkhash, current_applied, h)
                  ELSE [returned |-> TRUE, id |-> ForkId(forkhash, BlockOf(cond))]
             ELSE BlockPass_NeverStops(conds, i + 1, forkhash, current_applied, h)

\* the block pass without the check against current_applied
RECURSIVE BlockPass_NoDedup(_, _, _, _, _)
BlockPass_NoDedup(conds, i, forkhash, current_applied, h) ==
    IF i > Len(conds)
    THEN [returned |-> FALSE, forkhash |-> forkhash, current_applied |-> current_applied]
    ELSE LET cond == conds[i]
         IN  IF IsBlockClass(cond)
             THEN IF active_at_head(cond, h)
                  THEN LET next_hash == ForkHashAdd(forkhash, BlockOf(cond))
                       IN  IF next_hash[1] >= 0
                           THEN BlockPass_NoDedup(conds, i + 1, next_hash, BlockOf(cond), h)
                           ELSE [returned |-> FALSE]
                  ELSE [returned |-> TRUE, id |-> ForkId(forkhash, BlockOf(cond))]
             ELSE BlockPass_NoDedup(conds, i + 1, forkhash, current_applied, h)

\* the first loop of fork_id over conds[i..]: a ForkId when it returns early,
\* else the accumulator it leaves
RECURSIVE BlockPass(_, _, _, _, _)
BlockPass(conds, i, forkhash, current_applied, h) ==
    IF i > Len(conds)
    THEN [returned |-> FALSE, forkhash |-> forkhash, current_applied |-> current_applied]
    ELSE LET cond == conds[i]
         IN  IF IsBlockClass(cond)
             THEN IF active_at_head(cond, h)
                  THEN IF BlockOf(cond) # current_applied
                       THEN LET next_hash == ForkHashAdd(forkhash, BlockOf(cond))
                            IN  IF next_hash[1] >= 0
                                THEN BlockPass(conds, i + 1, next_hash, BlockOf(cond), h)
                                ELSE [returned |-> FALSE]
                       ELSE BlockPass(conds, i + 1, forkhash, current_applied, h)
                  ELSE [returned |-> TRUE, id |-> ForkId(forkhash, BlockOf(cond))]
             ELSE BlockPass(conds, i + 1, forkhash, current_applied, h)

\* the timestamps without the filter on the genesis timestamp
ForkTimestampsAfterGenesis_NoFilter(s) ==
    LET conds == forks_iter(s)
        kept == SelectSeq(conds, LAMBDA cond : IsSome(as_timestamp(cond)))
    IN  [i \in 1..Len(kept) |-> Unwrap(as_timestamp(kept[i]))]

\* the timestamps the second loop of fork_id iterates
\* the timestamps with >= for > in the filter
ForkTimestampsAfterGenesis_AtGenesisToo(s) ==
    LET conds == forks_iter(s)
        kept == SelectSeq(conds, LAMBDA cond :
                    IsSome(as_timestamp(cond))
                        /\ Unwrap(as_timestamp(cond)) >= s.genesis.timestamp)
    IN  [i \in 1..Len(kept) |-> Unwrap(as_timestamp(kept[i]))]

ForkTimestampsAfterGenesis(s) ==
    LET conds == forks_iter(s)
        kept == SelectSeq(conds, LAMBDA cond :
                    IsSome(as_timestamp(cond))
                        /\ Unwrap(as_timestamp(cond)) > s.genesis.timestamp)
    IN  [i \in 1..Len(kept) |-> Unwrap(as_timestamp(kept[i]))]

\* the timestamp pass without the check against current_applied
RECURSIVE TimestampPass_NoDedup(_, _, _, _, _)
TimestampPass_NoDedup(timestamps, i, forkhash, current_applied, h) ==
    IF i > Len(timestamps)
    THEN ForkId(forkhash, 0)
    ELSE LET timestamp == timestamps[i]
         IN  IF active_at_head(Timestamp(timestamp), h)
             THEN LET next_hash == ForkHashAdd(forkhash, timestamp)
                  IN  IF next_hash[1] >= 0
                      THEN TimestampPass_NoDedup(timestamps, i + 1, next_hash, timestamp, h)
                      ELSE ForkId(next_hash, 0)
             ELSE ForkId(forkhash, timestamp)

RECURSIVE TimestampPass(_, _, _, _, _)
TimestampPass(timestamps, i, forkhash, current_applied, h) ==
    IF i > Len(timestamps)
    THEN ForkId(forkhash, 0)
    ELSE LET timestamp == timestamps[i]
         IN  IF active_at_head(Timestamp(timestamp), h)
             THEN IF timestamp # current_applied
                  THEN LET next_hash == ForkHashAdd(forkhash, timestamp)
                       IN  IF next_hash[1] >= 0
                           THEN TimestampPass(timestamps, i + 1, next_hash, timestamp, h)
                           ELSE ForkId(next_hash, 0)
                  ELSE TimestampPass(timestamps, i + 1, forkhash, current_applied, h)
             ELSE ForkId(forkhash, timestamp)

\* fork_id with the timestamp pass before the block pass
fork_id_TimestampsFirst(s, h) ==
    LET times == TimestampPass(ForkTimestampsAfterGenesis(s), 1,
                               ForkHashFrom(genesis_hash(s)), 0, h)
        blocks == BlockPass(forks_iter(s), 1, times.hash, 0, h)
    IN  IF times.next # 0 THEN times
        ELSE IF blocks.returned THEN blocks.id
        ELSE ForkId(blocks.forkhash, 0)

\* fork_id whose timestamp pass starts with a current_applied of its own
fork_id_FreshTimestampPass(s, h) ==
    LET blocks == BlockPass(forks_iter(s), 1, ForkHashFrom(genesis_hash(s)), 0, h)
    IN  IF blocks.returned
        THEN blocks.id
        ELSE TimestampPass(ForkTimestampsAfterGenesis(s), 1, blocks.forkhash, 0, h)

\* fork_id without its second loop
fork_id_BlockPassOnly(s, h) ==
    LET blocks == BlockPass(forks_iter(s), 1, ForkHashFrom(genesis_hash(s)), 0, h)
    IN  IF blocks.returned THEN blocks.id ELSE ForkId(blocks.forkhash, 0)

\* ChainSpec::fork_id
fork_id(s, h) ==
    LET blocks == BlockPass(forks_iter(s), 1, ForkHashFrom(genesis_hash(s)), 0, h)
    IN  IF blocks.returned
        THEN blocks.id
        ELSE TimestampPass(ForkTimestampsAfterGenesis(s), 1, blocks.forkhash,
                           blocks.current_applied, h)

\* the activation points the first loop of fork_id folds into the hash
\* (forkhash += block), in the order it folds them
RECURSIVE FoldedBlockPass(_, _, _, _, _)
FoldedBlockPass(conds, i, points, current_applied, h) ==
    IF i > Len(conds)
    THEN [returned |-> FALSE, points |-> points, current_applied |-> current_applied]
    ELSE LET cond == conds[i]
         IN  IF IsBlockClass(cond)
             THEN IF active_at_head(cond, h)
                  THEN IF BlockOf(cond) # current_applied
                       THEN FoldedBlockPass(conds, i + 1, Append(points, BlockOf(cond)),
                                            BlockOf(cond), h)
                       ELSE FoldedBlockPass(conds, i + 1, points, current_applied, h)
                  ELSE [returned |-> TRUE, points |-> points]
             ELSE FoldedBlockPass(conds, i + 1, points, current_applied, h)

\* the activation points the second loop of fork_id folds (forkhash += timestamp)
RECURSIVE FoldedTimestampPass(_, _, _, _, _)
FoldedTimestampPass(timestamps, i, points, current_applied, h) ==
    IF i > Len(timestamps)
    THEN points
    ELSE LET timestamp == timestamps[i]
         IN  IF active_at_head(Timestamp(timestamp), h)
             THEN IF timestamp # current_applied
                  THEN FoldedTimestampPass(timestamps, i + 1, Append(points, timestamp),
                                           timestamp, h)
                  ELSE FoldedTimestampPass(timestamps, i + 1, points, current_applied, h)
             ELSE points

\* the sequence of activation points fork_id(h) folds into its hash
folded_points(s, h) ==
    LET blocks == FoldedBlockPass(forks_iter(s), 1, <<>>, 0, h)
    IN  IF blocks.returned
        THEN blocks.points
        ELSE FoldedTimestampPass(ForkTimestampsAfterGenesis(s), 1, blocks.points,
                                 blocks.current_applied, h)

\* forkhash += v for each v of points, in order
RECURSIVE ForkHashAddAll(_, _, _)
ForkHashAddAll(forkhash, points, i) ==
    IF i > Len(points) THEN forkhash
    ELSE ForkHashAddAll(ForkHashAdd(forkhash, points[i]), points, i + 1)

\* ChainSpec::last_block_fork_before_merge_or_timestamp: conds[i] is the
\* current condition, conds[i + 1] the peeked one
RECURSIVE LastBlockForkFrom(_, _)
LastBlockForkFrom(conds, i) ==
    IF i > Len(conds) THEN None
    ELSE IF i = Len(conds) THEN LastBlockForkFrom(conds, i + 1)
    ELSE LET curr_cond == conds[i]
             next_cond == conds[i + 1]
         IN  CASE next_cond.kind = "TTD" ->
                    IF IsSome(next_cond.fork_block) THEN next_cond.fork_block
                    ELSE IF curr_cond.kind = "Block" THEN Some(curr_cond.block)
                    ELSE LastBlockForkFrom(conds, i + 1)
               [] next_cond.kind = "Timestamp" ->
                    IF curr_cond.kind = "Block" THEN Some(curr_cond.block)
                    ELSE LastBlockForkFrom(conds, i + 1)
               [] OTHER -> LastBlockForkFrom(conds, i + 1)

last_block_fork_before_merge_or_timestamp(s) == LastBlockForkFrom(forks_iter(s), 1)

\* satisfy that fills the difficulty of the head with the terminal total difficulty
satisfy_TtdDifficulty(s, cond) ==
    CASE cond.kind = "Block" -> [DefaultHead EXCEPT !.number = cond.block]
      [] cond.kind = "Timestamp" ->
            LET last_block_num == last_block_fork_before_merge_or_timestamp(s)
            IN  IF IsSome(last_block_num)
                THEN [DefaultHead EXCEPT !.timestamp = cond.timestamp,
                                         !.number = Unwrap(last_block_num)]
                ELSE [DefaultHead EXCEPT !.timestamp = cond.timestamp]
      [] cond.kind = "TTD" -> [DefaultHead EXCEPT !.total_difficulty = cond.total_difficulty,
                                                  !.difficulty = cond.total_difficulty]

\* ChainSpec::satisfy; satisfy(Never) is unreachable!()
satisfy(s, cond) ==
    CASE cond.kind = "Block" -> [DefaultHead EXCEPT !.number = cond.block]
      [] cond.kind = "Timestamp" ->
            LET last_block_num == last_block_fork_before_merge_or_timestamp(s)
            IN  IF IsSome(last_block_num)
                THEN [DefaultHead EXCEPT !.timestamp = cond.timestamp,
                                         !.number = Unwrap(last_block_num)]
                ELSE [DefaultHead EXCEPT !.timestamp = cond.timestamp]
      [] cond.kind = "TTD" -> [DefaultHead EXCEPT !.total_difficulty = cond.total_difficulty]

\* hardfork_fork_id that also answers None for a TTD condition without a fork block
hardfork_fork_id_PlainTtdNone(s, hf) ==
    IF fork(s, hf) = Never \/ (fork(s, hf).kind = "TTD" /\ ~IsSome(fork(s, hf).fork_block))
    THEN None
    ELSE Some(fork_id(s, satisfy(s, fork(s, hf))))

\* ChainSpec::is_fork_active_at_timestamp
is_fork_active_at_timestamp(s, hf, timestamp) == active_at_timestamp(fork(s, hf), timestamp)

\* ChainSpec::is_shanghai_active_at_timestamp
is_shanghai_active_at_timestamp(s, timestamp) ==
    IF IsSome(s.fork_timestamps.shanghai)
    THEN timestamp >= Unwrap(s.fork_timestamps.shanghai)
    ELSE is_fork_active_at_timestamp(s, "Shanghai", timestamp)

\* ChainSpec::is_cancun_active_at_timestamp
is_cancun_active_at_timestamp(s, timestamp) ==
    IF IsSome(s.fork_timestamps.cancun)
    THEN timestamp >= Unwrap(s.fork_timestamps.cancun)
    ELSE is_fork_active_at_timestamp(s, "Cancun", timestamp)

\* ChainSpec::hardfork_fork_id
hardfork_fork_id(s, hf) ==
    IF fork(s, hf) = Never THEN None ELSE Some(fork_id(s, satisfy(s, fork(s, hf))))

\* the ForkFilterKey of a condition: None is the arm that returns None from filter_map
ForkFilterKey(cond) ==
    CASE cond.kind = "Block" -> Some([kind |-> "Block", value |-> cond.block])
      [] cond.kind = "Timestamp" -> Some([kind |-> "Time", value |-> cond.timestamp])
      [] cond.kind = "TTD" /\ IsSome(cond.fork_block)
            -> Some([kind |-> "Block", value |-> Unwrap(cond.fork_block)])
      [] OTHER -> None

\* ChainSpec::fork_filter: the arguments ForkFilter::new is given
fork_filter(s, h) ==
    LET keys == SelectSeq([i \in 1..Len(forks_iter(s)) |-> ForkFilterKey(forks_iter(s)[i])],
                          IsSome)
    IN  [head |-> h,
         genesis_hash |-> genesis_hash(s),
         genesis_timestamp |-> s.genesis.timestamp,
         forks |-> [i \in 1..Len(keys) |-> Unwrap(keys[i])]]

\* ChainSpec::hardfork_fork_filter
hardfork_fork_filter(s, hf) ==
    IF fork(s, hf) = Never THEN None ELSE Some(fork_filter(s, satisfy(s, fork(s, hf))))

(***************************************************************************)
(* ForkTimestamps, ChainSpecBuilder, and the MAINNET static.               *)
(***************************************************************************)
\* from_hardforks that reads the Shanghai entry for both timestamps
from_hardforks_ShanghaiTwice(hardforks) ==
    [shanghai |-> IF "Shanghai" \in DOMAIN hardforks
                  THEN as_timestamp(hardforks["Shanghai"]) ELSE None,
     cancun |-> IF "Shanghai" \in DOMAIN hardforks
                THEN as_timestamp(hardforks["Shanghai"]) ELSE None]

\* ForkTimestamps::from_hardforks
from_hardforks(hardforks) ==
    [shanghai |-> IF "Shanghai" \in DOMAIN hardforks
                  THEN as_timestamp(hardforks["Shanghai"]) ELSE None,
     cancun |-> IF "Cancun" \in DOMAIN hardforks
                THEN as_timestamp(hardforks["Cancun"]) ELSE None]

\* BaseFeeParamsKind::Constant(BaseFeeParams::ethereum())
ConstantEthereumBaseFee == [kind |-> "Constant", params |-> "ethereum"]

\* an insert that keeps the value a key already has
MapInsert_KeepFirst(m, k, v) == [x \in (DOMAIN m) \cup {k} |-> IF x \in DOMAIN m THEN m[x] ELSE v]

\* BTreeMap::insert and BTreeMap::remove
MapInsert(m, k, v) == [x \in (DOMAIN m) \cup {k} |-> IF x = k THEN v ELSE m[x]]
MapRemove(m, k) == [x \in (DOMAIN m) \ {k} |-> m[x]]

\* ChainSpecBuilder::default()
DefaultBuilder == [chain |-> None, genesis |-> None, hardforks |-> <<>>]

chain(b, c) == [b EXCEPT !.chain = Some(c)]
genesis(b, g) == [b EXCEPT !.genesis = Some(g)]
with_fork(b, hf, condition) == [b EXCEPT !.hardforks = MapInsert(b.hardforks, hf, condition)]
without_fork(b, hf) == [b EXCEPT !.hardforks = MapRemove(b.hardforks, hf)]
paris_at_ttd(b, ttd) == with_fork(b, "Paris", TTD(None, ttd))

\* the X_activated helpers of ChainSpecBuilder: each calls the helper before it and
\* inserts its own hardfork
frontier_activated(b) == with_fork(b, "Frontier", Block(0))
homestead_activated(b) == with_fork(frontier_activated(b), "Homestead", Block(0))
tangerine_whistle_activated(b) == with_fork(homestead_activated(b), "Tangerine", Block(0))
spurious_dragon_activated(b) == with_fork(tangerine_whistle_activated(b), "SpuriousDragon", Block(0))
byzantium_activated(b) == with_fork(spurious_dragon_activated(b), "Byzantium", Block(0))
constantinople_activated(b) == with_fork(byzantium_activated(b), "Constantinople", Block(0))
petersburg_activated(b) == with_fork(constantinople_activated(b), "Petersburg", Block(0))
istanbul_activated(b) == with_fork(petersburg_activated(b), "Istanbul", Block(0))
berlin_activated(b) == with_fork(istanbul_activated(b), "Berlin", Block(0))
london_activated(b) == with_fork(berlin_activated(b), "London", Block(0))
\* paris_activated that leaves the fork block unset, as paris_at_ttd does
paris_activated_NoForkBlock(b) == with_fork(london_activated(b), "Paris", TTD(None, 0))

paris_activated(b) == with_fork(london_activated(b), "Paris", TTD(Some(0), 0))
shanghai_activated(b) == with_fork(paris_activated(b), "Shanghai", Timestamp(0))
cancun_activated(b) == with_fork(shanghai_activated(b), "Cancun", Timestamp(0))

\* the helper that is named after hardfork X
activated(b, X) ==
    CASE X = "Frontier" -> frontier_activated(b)
      [] X = "Homestead" -> homestead_activated(b)
      [] X = "Tangerine" -> tangerine_whistle_activated(b)
      [] X = "SpuriousDragon" -> spurious_dragon_activated(b)
      [] X = "Byzantium" -> byzantium_activated(b)
      [] X = "Constantinople" -> constantinople_activated(b)
      [] X = "Petersburg" -> petersburg_activated(b)
      [] X = "Istanbul" -> istanbul_activated(b)
      [] X = "Berlin" -> berlin_activated(b)
      [] X = "London" -> london_activated(b)
      [] X = "Paris" -> paris_activated(b)
      [] X = "Shanghai" -> shanghai_activated(b)
      [] X = "Cancun" -> cancun_activated(b)

\* the hardforks that have an X_activated helper
ActivatedHelpers ==
    {"Frontier", "Homestead", "Tangerine", "SpuriousDragon", "Byzantium", "Constantinople", "Petersburg",
     "Istanbul", "Berlin", "London", "Paris", "Shanghai", "Cancun"}

\* MAINNET.hardforks.  Difficulties of MAINNET are in units of 10^15, rounded down.
MainnetHardforks ==
    [hf \in Hardfork |->
        CASE hf = "Frontier" -> Block(0)
          [] hf = "Homestead" -> Block(1150000)
          [] hf = "Dao" -> Block(1920000)
          [] hf = "Tangerine" -> Block(2463000)
          [] hf = "SpuriousDragon" -> Block(2675000)
          [] hf = "Byzantium" -> Block(4370000)
          [] hf = "Constantinople" -> Block(7280000)
          [] hf = "Petersburg" -> Block(7280000)
          [] hf = "Istanbul" -> Block(9069000)
          [] hf = "MuirGlacier" -> Block(9200000)
          [] hf = "Berlin" -> Block(12244000)
          [] hf = "London" -> Block(12965000)
          [] hf = "ArrowGlacier" -> Block(13773000)
          [] hf = "GrayGlacier" -> Block(15050000)
          [] hf = "Paris" -> TTD(None, 58750000)
          [] hf = "Shanghai" -> Timestamp(1681338455)
          [] hf = "Cancun" -> Timestamp(1710338135)]

MAINNET ==
    [chain |-> 1,
     genesis |-> MainnetGenesis,
     genesis_hash |-> Some(MainnetGenesisHash),
     paris_block_and_final_difficulty |-> Some(<<15537394, 58750003>>),
     fork_timestamps |-> [shanghai |-> Some(1681338455), cancun |-> Some(1710338135)],
     hardforks |-> MainnetHardforks,
     deposit_contract |-> Some([address |-> "00000000219ab540356cbb839cbe05303d7705fa",
                                block |-> 11052984]),
     base_fee_params |-> ConstantEthereumBaseFee,
     prune_delete_limit |-> 3500,
     snapshot_block_interval |-> 500000]

\* GOERLI.hardforks
GoerliHardforks ==
    [hf \in {"Frontier", "Homestead", "Dao", "Tangerine", "SpuriousDragon", "Byzantium",
             "Constantinople", "Petersburg", "Istanbul", "Berlin", "London", "Paris",
             "Shanghai", "Cancun"} |->
        CASE hf = "Istanbul" -> Block(1561651)
          [] hf = "Berlin" -> Block(4460644)
          [] hf = "London" -> Block(5062605)
          [] hf = "Paris" -> TTD(None, 10790000)
          [] hf = "Shanghai" -> Timestamp(1678832736)
          [] hf = "Cancun" -> Timestamp(1705473120)
          [] OTHER -> Block(0)]

\* the GOERLI static; genesis stands for res/genesis/goerli.json
GOERLI ==
    [chain |-> 5,
     genesis |-> [DefaultGenesis EXCEPT !.alloc = "goerli", !.timestamp = 1548854791],
     genesis_hash |-> Some(<<191, 126, 51, 31, 127, 124, 29, 210, 224, 81, 89, 102, 107, 59, 248, 188,
                          122, 138, 58, 158, 177, 213, 24, 150, 158, 171, 82, 157, 217, 184, 140, 26>>),
     paris_block_and_final_difficulty |-> Some(<<7382818, 10790000>>),
     fork_timestamps |-> [shanghai |-> Some(1678832736), cancun |-> Some(1705473120)],
     hardforks |-> GoerliHardforks,
     deposit_contract |-> Some([address |-> "ff50ed3d0ec03ac01d4c79aad74928bff48a7b2b",
                                block |-> 4367322]),
     base_fee_params |-> ConstantEthereumBaseFee,
     prune_delete_limit |-> 1700,
     snapshot_block_interval |-> 1000000]

\* SEPOLIA.hardforks.  Difficulties of SEPOLIA are in units of 10^15, rounded down.
SepoliaHardforks ==
    [hf \in {"Frontier", "Homestead", "Dao", "Tangerine", "SpuriousDragon", "Byzantium",
             "Constantinople", "Petersburg", "Istanbul", "MuirGlacier", "Berlin", "London",
             "Paris", "Shanghai", "Cancun"} |->
        CASE hf = "Paris" -> TTD(Some(1735371), 17)
          [] hf = "Shanghai" -> Timestamp(1677557088)
          [] hf = "Cancun" -> Timestamp(1706655072)
          [] OTHER -> Block(0)]

\* the SEPOLIA static; genesis stands for res/genesis/sepolia.json
SEPOLIA ==
    [chain |-> 11155111,
     genesis |-> [DefaultGenesis EXCEPT !.alloc = "sepolia", !.timestamp = 1633267481],
     genesis_hash |-> Some(<<37, 165, 204, 16, 110, 234, 113, 56, 172, 171, 51, 35, 29, 113, 96, 214,
                          156, 183, 119, 238, 12, 44, 85, 63, 205, 223, 81, 56, 153, 62, 109, 217>>),
     paris_block_and_final_difficulty |-> Some(<<1450409, 17>>),
     fork_timestamps |-> [shanghai |-> Some(1677557088), cancun |-> Some(1706655072)],
     hardforks |-> SepoliaHardforks,
     deposit_contract |-> Some([address |-> "7f02c3e3c98b133055b8b348b2ac625669ed295d",
                                block |-> 1273020]),
     base_fee_params |-> ConstantEthereumBaseFee,
     prune_delete_limit |-> 1700,
     snapshot_block_interval |-> 1000000]

\* HOLESKY.hardforks
HoleskyHardforks ==
    [hf \in {"Frontier", "Homestead", "Dao", "Tangerine", "SpuriousDragon", "Byzantium",
             "Constantinople", "Petersburg", "Istanbul", "MuirGlacier", "Berlin", "London",
             "Paris", "Shanghai", "Cancun"} |->
        CASE hf = "Paris" -> TTD(Some(0), 0)
          [] hf = "Shanghai" -> Timestamp(1696000704)
          [] hf = "Cancun" -> Timestamp(1707305664)
          [] OTHER -> Block(0)]

\* the HOLESKY static; genesis stands for res/genesis/holesky.json
HOLESKY ==
    [chain |-> 17000,
     genesis |-> [DefaultGenesis EXCEPT !.alloc = "holesky", !.timestamp = 1695902100],
     genesis_hash |-> Some(<<181, 247, 249, 18, 68, 60, 148, 15, 33, 253, 97, 31, 18, 130, 141, 117,
                          181, 52, 54, 78, 217, 233, 92, 164, 227, 7, 114, 154, 70, 97, 189, 228>>),
     paris_block_and_final_difficulty |-> Some(<<0, 1>>),
     fork_timestamps |-> [shanghai |-> Some(1696000704), cancun |-> Some(1707305664)],
     hardforks |-> HoleskyHardforks,
     deposit_contract |-> Some([address |-> "4242424242424242424242424242424242424242",
                                block |-> 0]),
     base_fee_params |-> ConstantEthereumBaseFee,
     prune_delete_limit |-> 1700,
     snapshot_block_interval |-> 1000000]

\* DEV.hardforks
DevHardforks ==
    [hf \in {"Frontier", "Homestead", "Dao", "Tangerine", "SpuriousDragon", "Byzantium",
             "Constantinople", "Petersburg", "Istanbul", "MuirGlacier", "Berlin", "London",
             "Paris", "Shanghai"} |->
        CASE hf = "Paris" -> TTD(Some(0), 0)
          [] hf = "Shanghai" -> Timestamp(0)
          [] OTHER -> Block(0)]

\* the DEV static; genesis stands for res/genesis/dev.json, and the fields the
\* literal leaves out are those of ChainSpec::default()
DEV ==
    [chain |-> 1337,
     genesis |-> [DefaultGenesis EXCEPT !.alloc = "dev", !.timestamp = 0],
     genesis_hash |-> Some(<<47, 152, 5, 118, 113, 30, 54, 23, 165, 228, 216, 61, 213, 57, 84, 142,
                          192, 247, 121, 32, 7, 213, 5, 163, 210, 233, 103, 72, 51, 175, 45, 124>>),
     paris_block_and_final_difficulty |-> Some(<<0, 0>>),
     fork_timestamps |-> [shanghai |-> Some(0), cancun |-> None],
     hardforks |-> DevHardforks,
     deposit_contract |-> None,
     base_fee_params |-> ConstantEthereumBaseFee,
     prune_delete_limit |-> MAINNET.prune_delete_limit,
     snapshot_block_interval |-> 0]

\* the well-known chain specs
Statics == {MAINNET, GOERLI, SEPOLIA, HOLESKY, DEV}

\* ChainSpecBuilder::mainnet()
BuilderOfMainnet ==
    [chain |-> Some(MAINNET.chain), genesis |-> Some(MAINNET.genesis),
     hardforks |-> MAINNET.hardforks]

\* a builder from a spec that leaves the hardforks behind
builder_from_NoHardforks(value) ==
    [chain |-> Some(value.chain), genesis |-> Some(value.genesis), hardforks |-> <<>>]

\* impl From<&Arc<ChainSpec>> for ChainSpecBuilder
builder_from(value) ==
    [chain |-> Some(value.chain), genesis |-> Some(value.genesis),
     hardforks |-> value.hardforks]

\* build that also refuses a builder without hardforks
build_panic_EmptyHardforks(b) ==
    IF ~IsSome(b.chain) THEN Some("The chain is required")
    ELSE IF ~IsSome(b.genesis) THEN Some("The genesis is required")
    ELSE IF b.hardforks = <<>> THEN Some("The hardforks are required")
    ELSE None

\* the panic of ChainSpecBuilder::build: the message of the first expect that
\* fails, None when build returns
build_panic(b) ==
    IF ~IsSome(b.chain) THEN Some("The chain is required")
    ELSE IF ~IsSome(b.genesis) THEN Some("The genesis is required")
    ELSE None

\* ChainSpecBuilder::build, when it returns
build(b) ==
    [chain |-> Unwrap(b.chain),
     genesis |-> Unwrap(b.genesis),
     genesis_hash |-> None,
     paris_block_and_final_difficulty |-> None,
     fork_timestamps |-> from_hardforks(b.hardforks),
     hardforks |-> b.hardforks,
     deposit_contract |-> None,
     base_fee_params |-> ConstantEthereumBaseFee,
     prune_delete_limit |-> MAINNET.prune_delete_limit,
     snapshot_block_interval |-> 0]

\* the block-based hardforks of From<Genesis> with their config fields, in the
\* order of hardfork_opts
BlockHardforkOpts ==
    <<<<"Homestead", "homestead_block">>, <<"Dao", "dao_fork_block">>,
      <<"Tangerine", "eip150_block">>, <<"SpuriousDragon", "eip155_block">>,
      <<"Byzantium", "byzantium_block">>, <<"Constantinople", "constantinople_block">>,
      <<"Petersburg", "petersburg_block">>, <<"Istanbul", "istanbul_block">>,
      <<"MuirGlacier", "muir_glacier_block">>, <<"Berlin", "berlin_block">>,
      <<"London", "london_block">>, <<"ArrowGlacier", "arrow_glacier_block">>,
      <<"GrayGlacier", "gray_glacier_block">>>>

\* the time-based hardforks of From<Genesis>, in the order of time_hardfork_opts
TimeHardforkOpts == <<<<"Shanghai", "shanghai_time">>, <<"Cancun", "cancun_time">>>>

\* filter_map and collect::<BTreeMap>(): the pairs whose option is Some, each with
\* the condition Block(n) or Timestamp(n), added to hardforks
RECURSIVE CollectOpts(_, _, _, _, _)
CollectOpts(config, opts, i, hardforks, kind) ==
    IF i > Len(opts) THEN hardforks
    ELSE LET opt == config[opts[i][2]]
         IN  IF IsSome(opt)
             THEN CollectOpts(config, opts, i + 1,
                              MapInsert(hardforks, opts[i][1],
                                        IF kind = "Block" THEN Block(Unwrap(opt))
                                        ELSE Timestamp(Unwrap(opt))),
                              kind)
             ELSE CollectOpts(config, opts, i + 1, hardforks, kind)

\* the hardforks of From<Genesis> with a Paris entry that drops merge_netsplit_block
GenesisHardforks_NoNetsplit(config) ==
    LET blocks == CollectOpts(config, BlockHardforkOpts, 1, <<>>, "Block")
        paris == IF IsSome(config.terminal_total_difficulty)
                 THEN MapInsert(blocks, "Paris",
                                TTD(None, Unwrap(config.terminal_total_difficulty)))
                 ELSE blocks
    IN  CollectOpts(config, TimeHardforkOpts, 1, paris, "Timestamp")

\* hardforks of From<Genesis>: the block forks, then Paris, then the time forks
GenesisHardforks(config) ==
    LET blocks == CollectOpts(config, BlockHardforkOpts, 1, <<>>, "Block")
        paris == IF IsSome(config.terminal_total_difficulty)
                 THEN MapInsert(blocks, "Paris",
                                TTD(config.merge_netsplit_block,
                                    Unwrap(config.terminal_total_difficulty)))
                 ELSE blocks
    IN  CollectOpts(config, TimeHardforkOpts, 1, paris, "Timestamp")

\* impl From<Genesis> for ChainSpec
from_genesis(g) ==
    [chain |-> g.config.chain_id,
     genesis |-> g,
     genesis_hash |-> None,
     paris_block_and_final_difficulty |-> None,
     fork_timestamps |-> from_hardforks(GenesisHardforks(g.config)),
     hardforks |-> GenesisHardforks(g.config),
     deposit_contract |-> None,
     base_fee_params |-> ConstantEthereumBaseFee,
     prune_delete_limit |-> MAINNET.prune_delete_limit,
     snapshot_block_interval |-> 0]

(***************************************************************************)
(* Accessors of a ChainSpec that do not depend on a head.                  *)
(***************************************************************************)
\* ChainSpec::default()
DefaultChainSpec ==
    [chain |-> 1,
     genesis |-> DefaultGenesis,
     genesis_hash |-> None,
     paris_block_and_final_difficulty |-> None,
     fork_timestamps |-> [shanghai |-> None, cancun |-> None],
     hardforks |-> <<>>,
     deposit_contract |-> None,
     base_fee_params |-> ConstantEthereumBaseFee,
     prune_delete_limit |-> MAINNET.prune_delete_limit,
     snapshot_block_interval |-> 0]

\* BaseFeeParamsKind::Constant and BaseFeeParamsKind::Variable; BaseFeeParams are
\* named by their constructor: "ethereum", "optimism", "optimism_canyon"
Constant(bf_params) == [kind |-> "Constant", params |-> bf_params]
Variable(table) == [kind |-> "Variable", table |-> table]

RECURSIVE FirstActiveFrom(_, _, _, _)
\* the loop of base_fee_params over bf_params.iter().rev(), at entry i: the
\* params of the first entry met whose hardfork is active at the timestamp
FirstActiveFrom(s, bf_params, i, timestamp) ==
    IF i = 0 THEN None
    ELSE IF is_fork_active_at_timestamp(s, bf_params[i][1], timestamp)
         THEN Some(bf_params[i][2])
         ELSE FirstActiveFrom(s, bf_params, i - 1, timestamp)

\* base_fee_params that walks the table from its first entry
base_fee_params_Forward(s, timestamp) ==
    IF s.base_fee_params.kind = "Constant" THEN s.base_fee_params.params
    ELSE LET bf_params == s.base_fee_params.table
             rev == [i \in 1..Len(bf_params) |-> bf_params[Len(bf_params) + 1 - i]]
             found == FirstActiveFrom(s, rev, Len(rev), timestamp)
         IN  IF IsSome(found) THEN Unwrap(found)
             ELSE IF Len(bf_params) > 0 THEN bf_params[1][2] ELSE "ethereum"

\* ChainSpec::base_fee_params
base_fee_params(s, timestamp) ==
    IF s.base_fee_params.kind = "Constant" THEN s.base_fee_params.params
    ELSE LET bf_params == s.base_fee_params.table
             found == FirstActiveFrom(s, bf_params, Len(bf_params), timestamp)
         IN  IF IsSome(found) THEN Unwrap(found)
             ELSE IF Len(bf_params) > 0 THEN bf_params[1][2] ELSE "ethereum"

\* final_paris_total_difficulty that leaves out the activation block itself
final_paris_total_difficulty_After(s, block_number) ==
    IF IsSome(s.paris_block_and_final_difficulty)
          /\ block_number > Unwrap(s.paris_block_and_final_difficulty)[1]
    THEN Some(Unwrap(s.paris_block_and_final_difficulty)[2])
    ELSE None

\* ChainSpec::final_paris_total_difficulty
final_paris_total_difficulty(s, block_number) ==
    IF IsSome(s.paris_block_and_final_difficulty)
          /\ block_number >= Unwrap(s.paris_block_and_final_difficulty)[1]
    THEN Some(Unwrap(s.paris_block_and_final_difficulty)[2])
    ELSE None

\* Hardfork's to_string: the name of the variant
to_string(hf) == hf

\* struct DisplayFork
DisplayFork(name, activated_at) == [name |-> name, activated_at |-> activated_at, eip |-> None]

\* impl Display for DisplayFork: the pieces of the text, without the padding of
\* the name; the text of a TTD fork ends with the note on the merge and, being
\* written with writeln!, with a newline; a Never condition is unreachable!()
DisplayFork_fmt(f) ==
    LET name_with_eip == IF IsSome(f.eip) THEN <<f.name, Unwrap(f.eip)>> ELSE <<f.name>>
    IN  CASE f.activated_at.kind = "Block" ->
                [name |-> name_with_eip, at |-> f.activated_at.block, note |-> None,
                 newline |-> FALSE]
          [] f.activated_at.kind = "Timestamp" ->
                [name |-> name_with_eip, at |-> f.activated_at.timestamp, note |-> None,
                 newline |-> FALSE]
          [] f.activated_at.kind = "TTD" ->
                [name |-> name_with_eip, at |-> f.activated_at.total_difficulty,
                 note |-> Some(IF IsSome(f.activated_at.fork_block)
                               THEN "network is known to be merged"
                               ELSE "network is not known to be merged"),
                 newline |-> TRUE]
          [] OTHER -> [panic |-> "unreachable"]

RECURSIVE DisplayPush_KeepsForkBlock(_, _, _, _, _)
\* the loop of DisplayHardforks::new that keeps the fork_block of a TTD condition
\* when no Paris block is known
DisplayPush_KeepsForkBlock(hardforks, known_paris_block, keys, i, d) ==
    IF i > Len(keys) THEN d
    ELSE LET condition == hardforks[keys[i]]
             display_fork == DisplayFork(to_string(keys[i]), condition)
             next ==
                CASE condition.kind = "Block" ->
                        [d EXCEPT !.pre_merge = Append(@, display_fork)]
                  [] condition.kind = "TTD" ->
                        [d EXCEPT !.with_merge =
                            Append(@, [display_fork EXCEPT !.activated_at =
                                          TTD(IF IsSome(known_paris_block)
                                              THEN known_paris_block
                                              ELSE condition.fork_block,
                                              condition.total_difficulty)])]
                  [] condition.kind = "Timestamp" ->
                        [d EXCEPT !.post_merge = Append(@, display_fork)]
                  [] OTHER -> d
         IN  IF Len(next.pre_merge) >= 0
             THEN DisplayPush_KeepsForkBlock(hardforks, known_paris_block, keys, i + 1, next)
             ELSE d

RECURSIVE DisplayPush_NeverShown(_, _, _, _, _)
\* the loop of DisplayHardforks::new that lists a Never entry with the timestamp forks
DisplayPush_NeverShown(hardforks, known_paris_block, keys, i, d) ==
    IF i > Len(keys) THEN d
    ELSE LET condition == hardforks[keys[i]]
             display_fork == DisplayFork(to_string(keys[i]), condition)
             next ==
                CASE condition.kind = "Block" ->
                        [d EXCEPT !.pre_merge = Append(@, display_fork)]
                  [] condition.kind = "TTD" ->
                        [d EXCEPT !.with_merge =
                            Append(@, [display_fork EXCEPT !.activated_at =
                                          TTD(known_paris_block, condition.total_difficulty)])]
                  [] OTHER ->
                        [d EXCEPT !.post_merge = Append(@, display_fork)]
         IN  IF Len(next.pre_merge) >= 0
             THEN DisplayPush_NeverShown(hardforks, known_paris_block, keys, i + 1, next)
             ELSE d

RECURSIVE DisplayPush(_, _, _, _, _)
\* the loop of DisplayHardforks::new over the map in key order, at key i
DisplayPush(hardforks, known_paris_block, keys, i, d) ==
    IF i > Len(keys) THEN d
    ELSE LET condition == hardforks[keys[i]]
             display_fork == DisplayFork(to_string(keys[i]), condition)
             next ==
                CASE condition.kind = "Block" ->
                        [d EXCEPT !.pre_merge = Append(@, display_fork)]
                  [] condition.kind = "TTD" ->
                        [d EXCEPT !.with_merge =
                            Append(@, [display_fork EXCEPT !.activated_at =
                                          TTD(known_paris_block, condition.total_difficulty)])]
                  [] condition.kind = "Timestamp" ->
                        [d EXCEPT !.post_merge = Append(@, display_fork)]
                  [] OTHER -> d
         IN  IF Len(next.pre_merge) >= 0
             THEN DisplayPush(hardforks, known_paris_block, keys, i + 1, next)
             ELSE d

\* DisplayHardforks::new
DisplayHardforks_new(hardforks, known_paris_block) ==
    DisplayPush(hardforks, known_paris_block, HardforkKeys(hardforks), 1,
                [pre_merge |-> <<>>, with_merge |-> <<>>, post_merge |-> <<>>])

\* the lines "- {fork}" of one group
DisplayLines(group) == [i \in 1..Len(group) |-> [fork |-> DisplayFork_fmt(group[i])]]

\* impl Display for DisplayHardforks: the lines written, a header line before
\* the block forks and before each of the other two groups that is not empty
DisplayHardforks_fmt(d) ==
    <<[header |-> "Pre-merge hard forks (block based):"]>>
        \o DisplayLines(d.pre_merge)
        \o (IF d.with_merge # <<>>
            THEN <<[header |-> "Merge hard forks:"]>> \o DisplayLines(d.with_merge)
            ELSE <<>>)
        \o (IF d.post_merge # <<>>
            THEN <<[header |-> "Post-merge hard forks (timestamp based):"]>>
                    \o DisplayLines(d.post_merge)
            ELSE <<>>)

\* ChainSpec::display_hardforks
display_hardforks(s) ==
    DisplayHardforks_new(s.hardforks,
                         IF IsSome(s.paris_block_and_final_difficulty)
                         THEN Some(Unwrap(s.paris_block_and_final_difficulty)[1])
                         ELSE None)

(***************************************************************************)
(* Inputs of the runs.                                                     *)
(***************************************************************************)
Range(f) == {f[x] : x \in DOMAIN f}

ChainInputs == {1}

GenesisInputs == {DefaultGenesis, with_timestamp(DefaultGenesis, 1)}

\* the hardforks with_fork and without_fork are called with
BuilderForks == {"Homestead", "London", "Paris", "Shanghai", "Cancun"}

ConditionInputs ==
    {Block(n) : n \in 0..MaxBlock}
        \cup {TTD(None, MaxTd), TTD(Some(1), MaxTd)}
        \cup {Timestamp(t) : t \in 0..MaxTime}
        \cup {Never}

HeadInputs ==
    {[DefaultHead EXCEPT !.number = n, !.timestamp = t, !.total_difficulty = td,
                         !.difficulty = d] :
        n \in 0..MaxBlock, t \in 0..MaxTime, td \in 0..MaxTd, d \in 0..MaxTd}

\* the heads of mainnet_forkids and timestamped_forks the MAINNET spec is asked about
MainnetHeadInputs ==
    {[DefaultHead EXCEPT !.number = p[1], !.timestamp = p[2]] :
        p \in {<<0, 0>>, <<1150000, 0>>, <<7280000, 0>>, <<15050000, 0>>,
               <<19999999, 1667999999>>, <<20000000, 1681338455>>,
               <<20000001, 1710338134>>, <<20000002, 1710338135>>,
               <<20000002, 2000000000>>}}

\* the config of geth_genesis_with_shanghai
GethShanghaiConfig ==
    [DefaultConfig EXCEPT !.chain_id = 1337, !.homestead_block = Some(0),
                          !.eip150_block = Some(0), !.eip155_block = Some(0),
                          !.byzantium_block = Some(0), !.constantinople_block = Some(0),
                          !.petersburg_block = Some(0), !.istanbul_block = Some(0),
                          !.muir_glacier_block = Some(0), !.berlin_block = Some(0),
                          !.london_block = Some(0), !.arrow_glacier_block = Some(0),
                          !.gray_glacier_block = Some(0), !.shanghai_time = Some(0),
                          !.cancun_time = Some(1), !.terminal_total_difficulty = Some(0)]

\* the genesis documents From<Genesis> is given: a few of the config fields vary,
\* and the config of geth_genesis_with_shanghai sets every block field but the
\* DAO one
GenesisConfigInputs ==
    {GethShanghaiConfig} \cup
    {[DefaultConfig EXCEPT !.chain_id = c, !.homestead_block = h, !.dao_fork_block = dao,
                           !.london_block = l, !.terminal_total_difficulty = ttd,
                           !.merge_netsplit_block = m, !.shanghai_time = sh,
                           !.cancun_time = ca] :
        c \in {1, 1337}, h \in {None, Some(0)}, dao \in {None, Some(1)},
        l \in {None, Some(MaxBlock)}, ttd \in {None, Some(MaxTd)}, m \in {None, Some(1)},
        sh \in {None, Some(0), Some(MaxTime)}, ca \in {None, Some(MaxTime)}}

\* the timestamps the timestamp queries are asked about
TimeInputs == 0..MaxTime

\* the timestamps the statics are asked about: around Shanghai of GOERLI, and
\* Cancun of HOLESKY
StaticTimeInputs == {1678832735, 1678832736, 1707305664}

NoCall == [op |-> "none"]

(***************************************************************************)
(* The well-known specs are statics of type Lazy<Arc<ChainSpec>>: the      *)
(* first dereference runs the closure that builds the spec, under the      *)
(* INCOMPLETE / RUNNING / COMPLETE protocol of the cell.                    *)
(***************************************************************************)
StaticNames == {"MAINNET", "GOERLI", "SEPOLIA", "HOLESKY", "DEV"}

\* the ChainSpec the closure of each static builds
StaticOf(name) ==
    CASE name = "MAINNET" -> MAINNET
      [] name = "GOERLI" -> GOERLI
      [] name = "SEPOLIA" -> SEPOLIA
      [] name = "HOLESKY" -> HOLESKY
      [] name = "DEV" -> DEV

Threads == 1..MaxThreads

\* Lazy::new(closure): nothing built yet; runs counts the runs of the closure
IncompleteCell == [state |-> "INCOMPLETE", value |-> None, runs |-> 0]

\* ChainSpec { .. }.into(): the Arc the n-th run of the closure allocates
ArcOf(name, n) == [spec |-> StaticOf(name), arc |-> n]

\* a compare_exchange that stores whatever it finds
compare_exchange_Blind(state, current, new) == [ok |-> TRUE, state |-> new]

\* AtomicUsize::compare_exchange on the state of the cell
compare_exchange(state, current, new) ==
    IF state = current THEN [ok |-> TRUE, state |-> new]
    ELSE [ok |-> FALSE, state |-> state]

Idle == [at |-> "idle", static |-> "MAINNET"]

\* no thread has touched a well-known spec
NoAccess ==
    /\ cells = [name \in StaticNames |-> IncompleteCell]
    /\ pc = [t \in Threads |-> Idle]
    /\ seen = [t \in Threads |-> None]

(***************************************************************************)
(* The state machine.                                                      *)
(***************************************************************************)
Init ==
    /\ builder = Some(DefaultBuilder)
    /\ spec = None
    /\ head = None
    /\ call = NoCall
    /\ result = None
    /\ NoAccess

\* ChainSpecBuilder::chain
SetChain ==
    /\ IsSome(builder)
    /\ \E c \in ChainInputs : builder' = Some(chain(Unwrap(builder), c))
    /\ UNCHANGED <<spec, head, call, result>>
    /\ UNCHANGED lazyvars

\* ChainSpecBuilder::genesis
SetGenesis ==
    /\ IsSome(builder)
    /\ \E g \in GenesisInputs : builder' = Some(genesis(Unwrap(builder), g))
    /\ UNCHANGED <<spec, head, call, result>>
    /\ UNCHANGED lazyvars

\* ChainSpecBuilder::with_fork
WithFork ==
    /\ IsSome(builder)
    /\ \E hf \in BuilderForks, condition \in ConditionInputs :
          /\ Cardinality(DOMAIN Unwrap(builder).hardforks \cup {hf}) <= MaxForks
          /\ builder' = Some(with_fork(Unwrap(builder), hf, condition))
    /\ UNCHANGED <<spec, head, call, result>>
    /\ UNCHANGED lazyvars

\* ChainSpecBuilder::without_fork
WithoutFork ==
    /\ IsSome(builder)
    /\ Cardinality(DOMAIN Unwrap(builder).hardforks) <= MaxForks
    /\ \E hf \in BuilderForks : builder' = Some(without_fork(Unwrap(builder), hf))
    /\ UNCHANGED <<spec, head, call, result>>
    /\ UNCHANGED lazyvars

\* ChainSpecBuilder::mainnet()
BuilderMainnet ==
    /\ builder = Some(DefaultBuilder)
    /\ builder' = Some(BuilderOfMainnet)
    /\ UNCHANGED <<spec, head, call, result>>
    /\ UNCHANGED lazyvars

\* one of the X_activated helpers of ChainSpecBuilder
Activated(X) ==
    /\ IsSome(builder)
    /\ builder' = Some(activated(Unwrap(builder), X))
    /\ UNCHANGED <<spec, head, call, result>>
    /\ UNCHANGED lazyvars

XActivated == \E X \in ActivatedHelpers : Activated(X)

\* ChainSpecBuilder::paris_at_ttd
ParisAtTtd ==
    /\ IsSome(builder)
    /\ Cardinality(DOMAIN Unwrap(builder).hardforks \cup {"Paris"}) <= MaxForks
    /\ builder' = Some(paris_at_ttd(Unwrap(builder), MaxTd))
    /\ UNCHANGED <<spec, head, call, result>>
    /\ UNCHANGED lazyvars

\* the entries of a map that are not as the X_activated helpers write them
NotAsActivated(hardforks) ==
    {hf \in DOMAIN hardforks :
        hardforks[hf] # (IF hf = "Paris" THEN TTD(Some(0), 0)
                         ELSE IF hf \in {"Shanghai", "Cancun"} THEN Timestamp(0)
                         ELSE Block(0))}

\* ChainSpecBuilder::with_fork for a hardfork of a map that the helpers have
\* grown beyond MaxForks entries: fewer than MaxForks entries are overwritten
OverrideFork ==
    /\ IsSome(builder)
    /\ Cardinality(DOMAIN Unwrap(builder).hardforks) > MaxForks
    /\ \E hf \in BuilderForks \cap DOMAIN Unwrap(builder).hardforks,
          condition \in ConditionInputs :
          /\ Cardinality(NotAsActivated(Unwrap(builder).hardforks) \cup {hf}) < MaxForks
          /\ builder' = Some(with_fork(Unwrap(builder), hf, condition))
    /\ UNCHANGED <<spec, head, call, result>>
    /\ UNCHANGED lazyvars

\* ChainSpecBuilder::build consumes the builder; it panics unless chain and
\* genesis are set
Build ==
    /\ IsSome(builder)
    /\ builder' = None
    /\ IF build_panic(Unwrap(builder)) = None
       THEN /\ spec' = Some(build(Unwrap(builder)))
            /\ UNCHANGED <<head, call, result>>
       ELSE /\ call' = [op |-> "panic", message |-> Unwrap(build_panic(Unwrap(builder)))]
            /\ UNCHANGED <<spec, head, result>>
    /\ UNCHANGED lazyvars

\* ChainSpec::from(genesis)
FromGenesis ==
    /\ builder = Some(DefaultBuilder)
    /\ spec = None
    /\ \E g \in GenesisInputs, config \in GenesisConfigInputs :
          spec' = Some(from_genesis([g EXCEPT !.config = config]))
    /\ builder' = None
    /\ UNCHANGED <<head, call, result>>
    /\ UNCHANGED lazyvars

\* the MAINNET static is used as it is
UseMainnet ==
    /\ builder = Some(DefaultBuilder)
    /\ spec = None
    /\ spec' = Some(MAINNET)
    /\ builder' = None
    /\ UNCHANGED <<head, call, result>>
    /\ UNCHANGED lazyvars

\* ChainSpecBuilder::from(&spec).build()
FromSpecBuild ==
    /\ builder = None
    /\ IsSome(spec)
    /\ call = NoCall
    /\ spec' = Some(build(builder_from(Unwrap(spec))))
    /\ UNCHANGED <<builder, head, call, result>>
    /\ UNCHANGED lazyvars

IsMainnetTable(s) == s.hardforks = MainnetHardforks

\* ChainSpec::fork_id(head)
QueryForkId ==
    /\ IsSome(spec)
    /\ call = NoCall
    /\ \E h \in HeadInputs \cup MainnetHeadInputs :
          /\ h \in MainnetHeadInputs => IsMainnetTable(Unwrap(spec))
          /\ head' = Some(h)
          /\ call' = [op |-> "fork_id"]
          /\ result' = Some(fork_id(Unwrap(spec), h))
    /\ UNCHANGED <<builder, spec>>
    /\ UNCHANGED lazyvars

\* ChainSpec::satisfy(cond); callers never pass Never
QuerySatisfy ==
    /\ IsSome(spec)
    /\ call = NoCall
    /\ \E cond \in ConditionInputs \ {Never} :
          /\ call' = [op |-> "satisfy", cond |-> cond]
          /\ result' = Some(satisfy(Unwrap(spec), cond))
    /\ head' = None
    /\ UNCHANGED <<builder, spec>>
    /\ UNCHANGED lazyvars

\* ChainSpec::hardfork_fork_id(fork)
QueryHardforkForkId ==
    /\ IsSome(spec)
    /\ call = NoCall
    /\ \E hf \in BuilderForks :
          /\ call' = [op |-> "hardfork_fork_id", fork |-> hf]
          /\ result' = Some(hardfork_fork_id(Unwrap(spec), hf))
    /\ head' = None
    /\ UNCHANGED <<builder, spec>>
    /\ UNCHANGED lazyvars

\* ChainSpec::hardfork_fork_filter(fork)
QueryHardforkForkFilter ==
    /\ IsSome(spec)
    /\ call = NoCall
    /\ \E hf \in BuilderForks :
          /\ call' = [op |-> "hardfork_fork_filter", fork |-> hf]
          /\ result' = Some(hardfork_fork_filter(Unwrap(spec), hf))
    /\ head' = None
    /\ UNCHANGED <<builder, spec>>
    /\ UNCHANGED lazyvars

\* one of the well-known statics is used as it is
UseStatic ==
    /\ builder = Some(DefaultBuilder)
    /\ spec = None
    /\ \E s \in Statics : spec' = Some(s)
    /\ builder' = None
    /\ UNCHANGED <<head, call, result>>
    /\ UNCHANGED lazyvars

\* ChainSpec::is_shanghai_active_at_timestamp(timestamp)
IsShanghaiActiveAtTimestamp ==
    /\ IsSome(spec)
    /\ call = NoCall
    /\ \E t \in TimeInputs \cup StaticTimeInputs :
          /\ t \in StaticTimeInputs => Unwrap(spec) \in Statics
          /\ call' = [op |-> "is_shanghai_active_at_timestamp", timestamp |-> t]
          /\ result' = Some(is_shanghai_active_at_timestamp(Unwrap(spec), t))
    /\ head' = None
    /\ UNCHANGED <<builder, spec>>
    /\ UNCHANGED lazyvars

\* ChainSpec::is_cancun_active_at_timestamp(timestamp)
IsCancunActiveAtTimestamp ==
    /\ IsSome(spec)
    /\ call = NoCall
    /\ \E t \in TimeInputs \cup StaticTimeInputs :
          /\ t \in StaticTimeInputs => Unwrap(spec) \in Statics
          /\ call' = [op |-> "is_cancun_active_at_timestamp", timestamp |-> t]
          /\ result' = Some(is_cancun_active_at_timestamp(Unwrap(spec), t))
    /\ head' = None
    /\ UNCHANGED <<builder, spec>>
    /\ UNCHANGED lazyvars

\* the caller is done with the value a query returned
Return ==
    /\ call # NoCall
    /\ call.op # "panic"
    /\ call' = NoCall
    /\ head' = None
    /\ result' = None
    /\ UNCHANGED <<builder, spec>>
    /\ UNCHANGED lazyvars

Next ==
    \/ SetChain
    \/ SetGenesis
    \/ WithFork
    \/ WithoutFork
    \/ BuilderMainnet
    \/ Build
    \/ UseMainnet
    \/ QueryForkId
    \/ QuerySatisfy
    \/ QueryHardforkForkId
    \/ QueryHardforkForkFilter
    \/ Return

Spec == Init /\ [][Next]_vars

(***************************************************************************)
(* The construction of a ChainSpec: every builder method up to build(),    *)
(* From<Genesis> and the MAINNET static, and the queries that read the     *)
(* timestamp cache of the spec.                                            *)
(***************************************************************************)
NextBuilder ==
    \/ SetChain
    \/ SetGenesis
    \/ WithFork
    \/ WithoutFork
    \/ BuilderMainnet
    \/ XActivated
    \/ ParisAtTtd
    \/ OverrideFork
    \/ Build
    \/ FromGenesis
    \/ UseStatic
    \/ FromSpecBuild
    \/ IsShanghaiActiveAtTimestamp
    \/ IsCancunActiveAtTimestamp
    \/ Return

SpecBuilder == Init /\ [][NextBuilder]_vars

(***************************************************************************)
(* Operators the properties are stated with.                               *)
(***************************************************************************)
\* the spec s with another hardfork map, as the builder would have built it
WithHardforks(s, hardforks) ==
    [s EXCEPT !.hardforks = hardforks, !.fork_timestamps = from_hardforks(hardforks)]

Removed(s, hf) == WithHardforks(s, MapRemove(s.hardforks, hf))
Inserted(s, hf, cond) == WithHardforks(s, MapInsert(s.hardforks, hf, cond))

\* the activation blocks of the block-class forks, in canonical order
BlockPoints(s) ==
    LET kept == SelectSeq(forks_iter(s), IsBlockClass)
    IN  [i \in 1..Len(kept) |-> BlockOf(kept[i])]

\* the activation timestamps, in canonical order
TimestampPoints(s) ==
    LET kept == SelectSeq(forks_iter(s), LAMBDA cond : cond.kind = "Timestamp")
    IN  [i \in 1..Len(kept) |-> kept[i].timestamp]

NonDecreasing(points) == \A i \in 1..(Len(points) - 1) : points[i] <= points[i + 1]

\* I4: block activations are non-decreasing in canonical order, timestamps likewise
I4(s) == NonDecreasing(BlockPoints(s)) /\ NonDecreasing(TimestampPoints(s))

\* I5: no timestamp fork precedes a block or TTD fork in canonical order
I5(s) ==
    LET conds == forks_iter(s)
    IN  \A i \in 1..Len(conds) : \A j \in 1..Len(conds) :
            (i < j /\ conds[i].kind = "Timestamp") => conds[j].kind \in {"Timestamp", "Never"}

RECURSIVE FoldAll(_, _, _)
FoldAll(hash, points, i) ==
    IF i > Len(points) THEN hash
    ELSE LET next_hash == ForkHashAdd(hash, points[i])
         IN  IF next_hash[1] >= 0 THEN FoldAll(next_hash, points, i + 1) ELSE next_hash

InForkId == call.op = "fork_id"
InSatisfy == call.op = "satisfy"
InHardforkForkId == call.op = "hardfork_fork_id"

(***************************************************************************)
(* C1                                                                      *)
(***************************************************************************)
\* the distinct activation points of MAINNET: blocks, then timestamps
MainnetBlockPoints ==
    <<1150000, 1920000, 2463000, 2675000, 4370000, 7280000, 9069000, 9200000,
      12244000, 12965000, 13773000, 15050000>>
MainnetTimePoints == <<1681338455, 1710338135>>

MainnetFolded(h) ==
    SelectSeq(MainnetBlockPoints, LAMBDA b : b <= h.number)
        \o (IF h.number >= 15050000
            THEN SelectSeq(MainnetTimePoints, LAMBDA t : t <= h.timestamp)
            ELSE <<>>)

MainnetHead(number, timestamp) ==
    [DefaultHead EXCEPT !.number = number, !.timestamp = timestamp]

\* C1: on the mainnet spec fork_id returns (fc64ec04, 1150000) at number 0,
\* (f0afd0e3, 1681338455) at number 15050000, (dce96c2d, 1710338135) at number
\* 20000000 and timestamp 1681338455, (9f3d2254, 0) at number 20000002 and
\* timestamp 1710338135; at every head the hash is the CRC32 of the genesis hash
\* extended with each folded activation point as 8 big-endian bytes.  The
\* mainnet spec is the MAINNET static or ChainSpecBuilder::mainnet().build().
C1_MainnetForkIds ==
    (InForkId /\ Unwrap(spec) \in {MAINNET, build(BuilderOfMainnet)}) =>
        LET h == Unwrap(head)
            id == Unwrap(result)
        IN  /\ h = MainnetHead(0, 0) => id = ForkId(<<252, 100, 236, 4>>, 1150000)
            /\ h = MainnetHead(15050000, 0) => id = ForkId(<<240, 175, 208, 227>>, 1681338455)
            /\ h = MainnetHead(20000000, 1681338455)
                  => id = ForkId(<<220, 233, 108, 45>>, 1710338135)
            /\ h = MainnetHead(20000002, 1710338135) => id = ForkId(<<159, 61, 34, 84>>, 0)
            /\ id.hash = FoldAll(ForkHashFrom(MainnetGenesisHash), MainnetFolded(h), 1)

C1_Witness ==
    /\ InForkId
    /\ spec = Some(MAINNET)
    /\ head = Some(MainnetHead(20000002, 1710338135))
    /\ result = Some(ForkId(<<159, 61, 34, 84>>, 0))

(***************************************************************************)
(* C2                                                                      *)
(***************************************************************************)
IsGenesisPoint(s, cond) == cond = Block(0) \/ cond = Timestamp(s.genesis.timestamp)

AllAtBlockZero(s) ==
    /\ DOMAIN s.hardforks # {}
    /\ \A hf \in DOMAIN s.hardforks : s.hardforks[hf] = Block(0)

\* C2 as stated: for every spec and head, removing a fork at Block(0) or at
\* Timestamp(genesis.timestamp) leaves the hash of fork_id(head) unchanged.
C2_AsStated ==
    InForkId =>
        LET s == Unwrap(spec)
            h == Unwrap(head)
            id == Unwrap(result)
        IN  \A hf \in DOMAIN s.hardforks :
                IsGenesisPoint(s, s.hardforks[hf]) => fork_id(Removed(s, hf), h).hash = id.hash

\* C2: genesis skipping.  In a spec whose block activations are non-decreasing in
\* canonical order, removing a fork at Block(0) or at Timestamp(genesis.timestamp)
\* leaves fork_id(head) unchanged at every head, provided the removal leaves
\* genesis_hash() unchanged; and a spec whose forks are all at block 0 has
\* hash = CRC32(genesis hash) and next = 0.
C2_GenesisSkipping ==
    InForkId =>
        LET s == Unwrap(spec)
            h == Unwrap(head)
            id == Unwrap(result)
        IN  /\ \A hf \in DOMAIN s.hardforks :
                  (/\ IsGenesisPoint(s, s.hardforks[hf])
                   /\ NonDecreasing(BlockPoints(s))
                   /\ genesis_hash(Removed(s, hf)) = genesis_hash(s))
                      => fork_id(Removed(s, hf), h) = id
            /\ AllAtBlockZero(s) => id = ForkId(ForkHashFrom(genesis_hash(s)), 0)

\* a fork at a genesis point is skipped while another fork is folded
C2_Witness ==
    /\ InForkId
    /\ LET s == Unwrap(spec)
       IN  /\ \E hf \in DOMAIN s.hardforks :
                 /\ IsGenesisPoint(s, s.hardforks[hf])
                 /\ NonDecreasing(BlockPoints(s))
                 /\ genesis_hash(Removed(s, hf)) = genesis_hash(s)
           /\ \E hf \in DOMAIN s.hardforks :
                 /\ s.hardforks[hf] = Block(1)
                 /\ Unwrap(head).number >= 1
                 /\ Unwrap(result).next = 0

(***************************************************************************)
(* C3                                                                      *)
(***************************************************************************)
\* the hardforks a property inserts into a spec
InsertableForks == {"Homestead", "London", "Paris", "Shanghai"}

\* a condition with the activation block or timestamp of cond
SamePoint(cond) ==
    IF IsBlockClass(cond) THEN {Block(BlockOf(cond))}
    ELSE IF cond.kind = "Timestamp" THEN {cond}
    ELSE {}

\* C3 as stated: for every spec and head, adding a fork whose activation block (or
\* timestamp) equals that of a fork already in the spec leaves fork_id(head) unchanged.
C3_AsStated ==
    InForkId =>
        LET s == Unwrap(spec)
            h == Unwrap(head)
            id == Unwrap(result)
        IN  \A hf \in InsertableForks \ DOMAIN s.hardforks : \A twin \in DOMAIN s.hardforks :
                \A cond \in SamePoint(s.hardforks[twin]) :
                    fork_id(Inserted(s, hf, cond), h) = id

\* no TTD fork with a fork block is active at h by total difficulty before its block
TtdByBlock(s, h) ==
    \A hf \in DOMAIN s.hardforks :
        LET cond == s.hardforks[hf]
        IN  (cond.kind = "TTD" /\ IsSome(cond.fork_block)
                /\ active_at_ttd(cond, h.total_difficulty, h.difficulty))
                => h.number >= Unwrap(cond.fork_block)

\* the conditions that duplicate the activation point of cond
Duplicates(cond) == SamePoint(cond) \cup (IF IsBlockClass(cond) THEN {cond} ELSE {})

\* the premises under which hardfork hf is added with the condition cond
C3_Premises(s, hf, cond, h) ==
    /\ I4(Inserted(s, hf, cond))
    /\ genesis_hash(Inserted(s, hf, cond)) = genesis_hash(s)
    /\ TtdByBlock(s, h)

\* C3: deduplication.  Adding a hardfork that is not in the spec, at the
\* activation block (or timestamp) of a fork already in the spec, leaves
\* fork_id(head) unchanged, provided block and timestamp activations stay
\* non-decreasing in canonical order, the addition leaves genesis_hash()
\* unchanged, and the head has not reached the total difficulty of a TTD fork
\* with a fork block before that block.
C3_Deduplication ==
    InForkId =>
        LET s == Unwrap(spec)
            h == Unwrap(head)
            id == Unwrap(result)
        IN  \A hf \in InsertableForks \ DOMAIN s.hardforks : \A twin \in DOMAIN s.hardforks :
                \A cond \in Duplicates(s.hardforks[twin]) :
                    C3_Premises(s, hf, cond, h) => fork_id(Inserted(s, hf, cond), h) = id

\* a fork that is active at the head and folded has a duplicate added
C3_Witness ==
    /\ InForkId
    /\ LET s == Unwrap(spec)
           h == Unwrap(head)
       IN  \E hf \in InsertableForks \ DOMAIN s.hardforks : \E twin \in DOMAIN s.hardforks :
               /\ s.hardforks[twin] \in {Block(1), Timestamp(2)}
               /\ C3_Premises(s, hf, s.hardforks[twin], h)
               /\ active_at_head(s.hardforks[twin], h)
               /\ Unwrap(result).next = 0
               /\ Unwrap(result).hash # ForkHashFrom(genesis_hash(s))

(***************************************************************************)
(* C4                                                                      *)
(***************************************************************************)
\* the points the block pass folds when every fork of points is active: a point
\* is folded unless it equals the point before it (0 before the first)
FoldedPoints(points) ==
    LET pairs == [k \in 1..Len(points) |-> <<(<<0>> \o points)[k], points[k]>>]
        kept == SelectSeq(pairs, LAMBDA pair : pair[1] # pair[2])
    IN  [k \in 1..Len(kept) |-> kept[k][2]]

\* the positions in forks_iter of the block-class forks that are not active at h
InactiveBlockForks(s, h) ==
    {i \in 1..Len(forks_iter(s)) :
        IsBlockClass(forks_iter(s)[i]) /\ ~active_at_head(forks_iter(s)[i], h)}

Min(S) == CHOOSE x \in S : \A y \in S : x <= y

\* C4: strict ordering by class.  When some block-class fork is not active at the
\* head, next is the block of the first such fork in canonical order, the hash
\* folds only the block-class forks before it, and neither depends on the
\* timestamp of the head.
C4_StrictOrdering ==
    InForkId =>
        LET s == Unwrap(spec)
            h == Unwrap(head)
            id == Unwrap(result)
            inactive == InactiveBlockForks(s, h)
        IN  inactive # {} =>
                LET first == Min(inactive)
                    before == SelectSeq(SubSeq(forks_iter(s), 1, first - 1), IsBlockClass)
                    points == [k \in 1..Len(before) |-> BlockOf(before[k])]
                IN  /\ id.next = BlockOf(forks_iter(s)[first])
                    /\ id.hash = FoldAll(ForkHashFrom(genesis_hash(s)), FoldedPoints(points), 1)
                    /\ \A t \in 0..MaxTime : fork_id(s, [h EXCEPT !.timestamp = t]) = id

\* a timestamp fork is active at the head, its timestamp is smaller than the block
\* of an inactive block fork, and an earlier block fork is folded
C4_Witness ==
    /\ InForkId
    /\ LET s == Unwrap(spec)
           h == Unwrap(head)
       IN  /\ InactiveBlockForks(s, h) # {}
           /\ \E hf \in DOMAIN s.hardforks :
                 /\ s.hardforks[hf].kind = "Timestamp"
                 /\ s.hardforks[hf].timestamp > s.genesis.timestamp
                 /\ active_at_head(s.hardforks[hf], h)
                 /\ s.hardforks[hf].timestamp < Unwrap(result).next

(***************************************************************************)
(* C5                                                                      *)
(***************************************************************************)
IsTtdWithBlock(cond) == cond.kind = "TTD" /\ IsSome(cond.fork_block)

\* C5 as stated: for every spec and every head, replacing TTD{fork_block: Some(b),
\* total_difficulty: T} by Block(b) leaves fork_id(head) unchanged.
C5_AsStated ==
    InForkId =>
        LET s == Unwrap(spec)
            h == Unwrap(head)
            id == Unwrap(result)
        IN  \A hf \in DOMAIN s.hardforks :
                IsTtdWithBlock(s.hardforks[hf])
                    => fork_id(Inserted(s, hf, Block(BlockOf(s.hardforks[hf]))), h) = id

\* C5: replacing TTD{fork_block: Some(b), total_difficulty: T} by Block(b) leaves
\* fork_id(head) unchanged at every head with number >= b or with
\* total_difficulty - difficulty (saturating) below T.
C5_TtdWithBlockAsBlock ==
    InForkId =>
        LET s == Unwrap(spec)
            h == Unwrap(head)
            id == Unwrap(result)
        IN  \A hf \in DOMAIN s.hardforks :
                LET cond == s.hardforks[hf]
                IN  (/\ IsTtdWithBlock(cond)
                     /\ \/ h.number >= BlockOf(cond)
                        \/ saturating_sub(h.total_difficulty, h.difficulty)
                              < cond.total_difficulty)
                        => fork_id(Inserted(s, hf, Block(BlockOf(cond))), h) = id

\* a TTD fork with a fork block is folded at a head that has reached the block
C5_Witness ==
    /\ InForkId
    /\ LET s == Unwrap(spec)
           h == Unwrap(head)
       IN  \E hf \in DOMAIN s.hardforks :
               /\ s.hardforks[hf] = TTD(Some(1), MaxTd)
               /\ h.number >= 1
               /\ h.total_difficulty = 0
               /\ Unwrap(result) = ForkId(ForkHashAdd(ForkHashFrom(genesis_hash(s)), 1), 0)

(***************************************************************************)
(* C6                                                                      *)
(***************************************************************************)
IsPlainTtd(cond) == cond.kind = "TTD" /\ ~IsSome(cond.fork_block)

\* C6: a TTD condition with fork_block None never affects the fork id: fork_id(head)
\* equals the fork id of the spec without that entry, whatever the total
\* difficulty and the difficulty of the head are.
C6_PlainTtdInvisible ==
    InForkId =>
        LET s == Unwrap(spec)
            h == Unwrap(head)
            id == Unwrap(result)
        IN  \A hf \in DOMAIN s.hardforks :
                IsPlainTtd(s.hardforks[hf]) => fork_id(Removed(s, hf), h) = id

\* a plain TTD fork is active at the head by total difficulty, beside a folded fork
C6_Witness ==
    /\ InForkId
    /\ LET s == Unwrap(spec)
           h == Unwrap(head)
       IN  /\ \E hf \in DOMAIN s.hardforks :
                 /\ IsPlainTtd(s.hardforks[hf])
                 /\ active_at_head(s.hardforks[hf], h)
           /\ Unwrap(result).hash # ForkHashFrom(genesis_hash(s))

(***************************************************************************)
(* C7                                                                      *)
(***************************************************************************)
\* C7 as stated: inserting (hf, Never) into any spec leaves fork_id(head) unchanged
\* for every head, and hardfork_fork_id(hf) is None afterwards.
C7_AsStated ==
    InForkId =>
        LET s == Unwrap(spec)
            h == Unwrap(head)
            id == Unwrap(result)
        IN  \A hf \in InsertableForks :
                /\ fork_id(Inserted(s, hf, Never), h) = id
                /\ hardfork_fork_id(Inserted(s, hf, Never), hf) = None

\* C7: Never-inertness.  Inserting (hf, Never) for a hardfork the spec does not
\* have leaves fork_id(head) unchanged for every head: a spec with (hf, Never)
\* has the fork id of the same spec without hf, and the spec without hf has the
\* fork id of the spec with (hf, Never) added; and after inserting (hf, Never)
\* into any spec hardfork_fork_id(hf) is None.
C7_NeverInert ==
    InForkId =>
        LET s == Unwrap(spec)
            h == Unwrap(head)
            id == Unwrap(result)
        IN  \A hf \in InsertableForks :
                /\ hf \notin DOMAIN s.hardforks => fork_id(Inserted(s, hf, Never), h) = id
                /\ (hf \in DOMAIN s.hardforks /\ s.hardforks[hf] = Never)
                      => fork_id(Removed(s, hf), h) = id
                /\ hardfork_fork_id(Inserted(s, hf, Never), hf) = None

\* the spec was built with (Homestead, Never) before a fork that is folded
C7_Witness ==
    /\ InForkId
    /\ LET s == Unwrap(spec)
       IN  /\ "Homestead" \in DOMAIN s.hardforks
           /\ s.hardforks["Homestead"] = Never
           /\ Unwrap(result).hash # ForkHashFrom(genesis_hash(s))

(***************************************************************************)
(* ForkCondition::active_at_head on its own: a condition is asked about a  *)
(* head, without a chain spec.                                             *)
(***************************************************************************)
\* the heads a condition is asked about: difficulties go one beyond MaxTd
ConditionHeadInputs ==
    {[DefaultHead EXCEPT !.number = n, !.timestamp = t, !.total_difficulty = td,
                         !.difficulty = d] :
        n \in 0..MaxBlock, t \in 0..MaxTime, td \in 0..(MaxTd + 1), d \in 0..(MaxTd + 1)}

\* cond.active_at_head(&head)
ActiveAtHead ==
    /\ call = NoCall
    /\ \E cond \in ConditionInputs, h \in ConditionHeadInputs :
          /\ head' = Some(h)
          /\ call' = [op |-> "active_at_head", cond |-> cond]
          /\ result' = Some(active_at_head(cond, h))
    /\ UNCHANGED <<builder, spec>>
    /\ UNCHANGED lazyvars

\* the conditions active_at_ttd is asked of: every threshold up to MaxTd + 1, and
\* the Paris condition of MAINNET
TtdConditionInputs ==
    ConditionInputs
        \cup {TTD(None, T) : T \in 0..(MaxTd + 1)}
        \cup {MainnetHardforks["Paris"]}

\* the (total difficulty, difficulty) pairs active_at_ttd is asked about; the last
\* two are the terminal PoW block and the first PoS block of check_terminal_ttd
DifficultyInputs ==
    ((0..(MaxTd + 1)) \X (0..(MaxTd + 1))) \cup {<<58750003, 11>>, <<58750003, 0>>}

\* cond.active_at_ttd(ttd, difficulty)
ActiveAtTtd ==
    /\ call = NoCall
    /\ \E cond \in TtdConditionInputs, p \in DifficultyInputs :
          /\ call' = [op |-> "active_at_ttd", cond |-> cond, ttd |-> p[1],
                                              difficulty |-> p[2]]
          /\ result' = Some(active_at_ttd(cond, p[1], p[2]))
    /\ head' = None
    /\ UNCHANGED <<builder, spec>>
    /\ UNCHANGED lazyvars

InitCondition ==
    /\ builder = None
    /\ spec = None
    /\ head = None
    /\ call = NoCall
    /\ result = None
    /\ NoAccess

NextCondition ==
    \/ ActiveAtHead
    \/ ActiveAtTtd
    \/ Return

SpecCondition == InitCondition /\ [][NextCondition]_vars

(***************************************************************************)
(* The accessors of a ChainSpec written as a struct literal, as the        *)
(* statics and the tests write it: base_fee_params,                        *)
(* final_paris_total_difficulty and display_hardforks.                     *)
(***************************************************************************)
\* the map of the entries that are present
OptMap(opts) == [hf \in {k \in DOMAIN opts : IsSome(opts[k])} |-> Unwrap(opts[hf])]

\* the hardfork maps of the literals: each of five hardforks is absent or has one
\* of a few conditions, of its usual kind or not
AccessorHardforks ==
    {OptMap([Homestead |-> h, London |-> l, Paris |-> p, Shanghai |-> sh, Cancun |-> ca]) :
        h \in {None, Some(Block(0)), Some(Never)},
        l \in {None, Some(Block(MaxBlock)), Some(Timestamp(1))},
        p \in {None, Some(TTD(None, MaxTd)), Some(TTD(Some(1), MaxTd)), Some(Never)},
        sh \in {None, Some(Timestamp(0)), Some(Timestamp(MaxTime)), Some(Never)},
        ca \in {None, Some(Timestamp(MaxTime)), Some(Block(1))}}

\* the hardforks the base fee tables name
BaseFeeForks == {"London", "Shanghai", "Cancun"}

\* the base fee parameters of the literals: constants, and tables of up to three
\* entries in any order, the same hardfork twice included
BaseFeeInputs ==
    {Constant("ethereum"), Constant("optimism"), Variable(<<>>)}
        \cup {Variable(<<<<a, "optimism">>>>) : a \in BaseFeeForks}
        \cup {Variable(<<<<a, "optimism">>, <<b, "optimism_canyon">>>>) :
                a \in BaseFeeForks, b \in BaseFeeForks}
        \cup {Variable(<<<<"London", "ethereum">>, <<"Shanghai", "optimism">>,
                         <<"Cancun", "optimism_canyon">>>>)}

\* the recorded Paris activations of the literals
ParisInputs == {None, Some(<<1, MaxTd>>)}

\* ChainSpec { hardforks, paris_block_and_final_difficulty, base_fee_params,
\*             ..Default::default() }, and the statics
AccessorSpecs ==
    {[DefaultChainSpec EXCEPT !.hardforks = hardforks,
                              !.paris_block_and_final_difficulty = paris,
                              !.base_fee_params = bf] :
        hardforks \in AccessorHardforks, paris \in ParisInputs, bf \in BaseFeeInputs}
        \cup Statics

\* the block numbers final_paris_total_difficulty is asked about
BlockInputs == 0..MaxBlock

\* the block numbers the statics are asked about: around the Paris blocks of
\* MAINNET and SEPOLIA
StaticBlockInputs == {15537393, 15537394, 1450409, 1450410}

InitAccessors ==
    /\ builder = None
    /\ spec \in {Some(s) : s \in AccessorSpecs}
    /\ head = None
    /\ call = NoCall
    /\ result = None
    /\ NoAccess

\* ChainSpec::base_fee_params(timestamp)
BaseFeeParamsAt ==
    /\ IsSome(spec)
    /\ call = NoCall
    /\ \E t \in 0..(MaxTime + 1) :
          /\ call' = [op |-> "base_fee_params", timestamp |-> t]
          /\ result' = Some(base_fee_params(Unwrap(spec), t))
    /\ head' = None
    /\ UNCHANGED <<builder, spec>>
    /\ UNCHANGED lazyvars

\* ChainSpec::final_paris_total_difficulty(block_number)
FinalParisTotalDifficulty ==
    /\ IsSome(spec)
    /\ call = NoCall
    /\ \E n \in BlockInputs \cup StaticBlockInputs :
          /\ n \in StaticBlockInputs => Unwrap(spec) \in Statics
          /\ call' = [op |-> "final_paris_total_difficulty", block_number |-> n]
          /\ result' = Some(final_paris_total_difficulty(Unwrap(spec), n))
    /\ head' = None
    /\ UNCHANGED <<builder, spec>>
    /\ UNCHANGED lazyvars

\* ChainSpec::display_hardforks()
DisplayHardforks ==
    /\ IsSome(spec)
    /\ call = NoCall
    /\ call' = [op |-> "display_hardforks"]
    /\ result' = Some(display_hardforks(Unwrap(spec)))
    /\ head' = None
    /\ UNCHANGED <<builder, spec>>
    /\ UNCHANGED lazyvars

\* ChainSpec::display_hardforks().to_string()
DisplayToString ==
    /\ IsSome(spec)
    /\ call = NoCall
    /\ call' = [op |-> "display_hardforks().to_string"]
    /\ result' = Some(DisplayHardforks_fmt(display_hardforks(Unwrap(spec))))
    /\ head' = None
    /\ UNCHANGED <<builder, spec>>
    /\ UNCHANGED lazyvars

NextAccessors ==
    \/ BaseFeeParamsAt
    \/ FinalParisTotalDifficulty
    \/ DisplayHardforks
    \/ DisplayToString
    \/ Return

SpecAccessors == InitAccessors /\ [][NextAccessors]_vars

(***************************************************************************)
(* The genesis header and the initial base fee of specs written as struct  *)
(* literals ChainSpec { genesis, hardforks, ..Default::default() } and of    *)
(* the spec of test_default_cancun_header_forkhash.                        *)
(***************************************************************************)
\* the genesis documents of the literals: Genesis { timestamp, base_fee_per_gas,
\* blob_gas_used, excess_blob_gas, ..Default::default() }
HeaderGenesisInputs ==
    {[DefaultGenesis EXCEPT !.timestamp = t, !.base_fee_per_gas = fee,
                            !.blob_gas_used = used, !.excess_blob_gas = excess] :
        t \in 0..MaxTime, fee \in {None, Some(7)}, used \in {None, Some(1)},
        excess \in {None, Some(2)}}

\* the hardfork maps of the literals: London, Shanghai and Cancun are absent or
\* have a condition of their usual kind or of another kind
HeaderHardforks ==
    {OptMap([London |-> l, Shanghai |-> sh, Cancun |-> ca]) :
        l \in {None, Some(Block(0)), Some(Block(1)), Some(TTD(Some(0), MaxTd)),
               Some(Timestamp(0)), Some(Never)},
        sh \in {None, Some(Timestamp(0)), Some(Timestamp(MaxTime)), Some(Block(0)), Some(Never)},
        ca \in {None, Some(Timestamp(0)), Some(Timestamp(MaxTime)), Some(Block(0)), Some(Never)}}

\* ChainSpecBuilder::default().chain(1337).genesis(genesis).cancun_activated().build()
CancunActivatedSpec ==
    build(cancun_activated(genesis(chain(DefaultBuilder, 1337), DefaultGenesis)))

HeaderSpecs ==
    {[DefaultChainSpec EXCEPT !.genesis = g, !.hardforks = hardforks] :
        g \in HeaderGenesisInputs, hardforks \in HeaderHardforks}
        \cup {CancunActivatedSpec}

InitGenesis ==
    /\ builder = None
    /\ spec \in {Some(s) : s \in HeaderSpecs}
    /\ head = None
    /\ call = NoCall
    /\ result = None
    /\ NoAccess

\* ChainSpec::genesis_header()
GenesisHeader ==
    /\ IsSome(spec)
    /\ call = NoCall
    /\ call' = [op |-> "genesis_header"]
    /\ result' = Some(genesis_header(Unwrap(spec)))
    /\ head' = None
    /\ UNCHANGED <<builder, spec>>
    /\ UNCHANGED lazyvars

\* ChainSpec::initial_base_fee()
InitialBaseFee ==
    /\ IsSome(spec)
    /\ call = NoCall
    /\ call' = [op |-> "initial_base_fee"]
    /\ result' = Some(initial_base_fee(Unwrap(spec)))
    /\ head' = None
    /\ UNCHANGED <<builder, spec>>
    /\ UNCHANGED lazyvars

NextGenesis ==
    \/ GenesisHeader
    \/ InitialBaseFee
    \/ Return

SpecGenesis == InitGenesis /\ [][NextGenesis]_vars

(***************************************************************************)
(* fork_id of specs written as struct literals ChainSpec { genesis,        *)
(* hardforks, ..Default::default() }, where a TTD condition may have any    *)
(* fork block, and of HOLESKY and SEPOLIA at the heads of their tests.      *)
(***************************************************************************)
\* the hardfork maps of the literals
ForkIdHardforks ==
    {OptMap([Homestead |-> h, London |-> l, Paris |-> p, Shanghai |-> sh, Cancun |-> ca]) :
        h \in {None, Some(Block(0)), Some(Block(1))},
        l \in {None, Some(Block(MaxBlock))},
        p \in {None, Some(TTD(None, MaxTd)), Some(TTD(Some(0), 0)), Some(TTD(Some(0), MaxTd)),
               Some(TTD(Some(1), MaxTd)), Some(Never)},
        sh \in {None, Some(Timestamp(0)), Some(Timestamp(1)), Some(Timestamp(MaxTime))},
        ca \in {None, Some(Timestamp(1)), Some(Timestamp(MaxTime)), Some(Block(1))}}

ForkIdSpecs ==
    {[DefaultChainSpec EXCEPT !.genesis = with_timestamp(DefaultGenesis, t),
                              !.hardforks = hardforks] :
        t \in {0, 1}, hardforks \in ForkIdHardforks}
        \cup {HOLESKY, SEPOLIA}

\* the heads of holesky_forkids and sepolia_forkids
HoleskyHeadInputs ==
    {[DefaultHead EXCEPT !.number = p[1], !.timestamp = p[2]] :
        p \in {<<0, 0>>, <<123, 0>>, <<123, 1696000703>>, <<123, 1696000704>>,
               <<123, 1707305663>>, <<123, 1707305664>>}}

SepoliaHeadInputs ==
    {[DefaultHead EXCEPT !.number = p[1], !.timestamp = p[2]] :
        p \in {<<0, 0>>, <<1735370, 0>>, <<1735371, 0>>, <<1735372, 1677557087>>,
               <<1735372, 1677557088>>, <<1735372, 1706655071>>, <<1735372, 1706655072>>}}

\* the heads a spec is asked about
HeadsOf(s) ==
    IF s = HOLESKY THEN HoleskyHeadInputs
    ELSE IF s = SEPOLIA THEN SepoliaHeadInputs
    ELSE HeadInputs

InitForkId ==
    /\ builder = None
    /\ spec \in {Some(s) : s \in ForkIdSpecs}
    /\ head = None
    /\ call = NoCall
    /\ result = None
    /\ NoAccess

\* ChainSpec::fork_id(head)
ForkIdAtHead ==
    /\ IsSome(spec)
    /\ call = NoCall
    /\ \E h \in HeadsOf(Unwrap(spec)) :
          /\ head' = Some(h)
          /\ call' = [op |-> "fork_id"]
          /\ result' = Some(fork_id(Unwrap(spec), h))
    /\ UNCHANGED <<builder, spec>>
    /\ UNCHANGED lazyvars

NextForkId ==
    \/ ForkIdAtHead
    \/ Return

SpecForkId == InitForkId /\ [][NextForkId]_vars

(***************************************************************************)
(* Concurrent accesses to the well-known specs.  A thread dereferences a   *)
(* static: it loads the state of the cell, returns the value of a COMPLETE *)
(* cell, races for an INCOMPLETE one with compare_exchange and, if it won, *)
(* runs the closure, stores the Arc and marks the cell COMPLETE, or waits  *)
(* while another thread is RUNNING.                                        *)
(***************************************************************************)
InitLazy ==
    /\ builder = None
    /\ spec = None
    /\ head = None
    /\ call = NoCall
    /\ result = None
    /\ NoAccess

At(t, at) == pc[t].at = at

Goto(t, at) == pc' = [pc EXCEPT ![t].at = at]

\* a thread dereferences one of the statics
Deref(t) ==
    /\ At(t, "idle") \/ At(t, "done")
    /\ \E name \in StaticNames : pc' = [pc EXCEPT ![t] = [at |-> "load", static |-> name]]
    /\ seen' = [seen EXCEPT ![t] = None]
    /\ UNCHANGED <<builder, spec, head, call, result, cells>>

\* it loads the state of the cell
Load(t) ==
    /\ At(t, "load")
    /\ LET state == cells[pc[t].static].state
       IN  Goto(t, CASE state = "COMPLETE" -> "get"
                     [] state = "INCOMPLETE" -> "race"
                     [] state = "RUNNING" -> "wait")
    /\ UNCHANGED <<builder, spec, head, call, result, cells, seen>>

\* it tries to move the cell from INCOMPLETE to RUNNING; the winner is the one
\* that runs the closure
Race(t) ==
    /\ At(t, "race")
    /\ LET name == pc[t].static
           x == compare_exchange(cells[name].state, "INCOMPLETE", "RUNNING")
       IN  /\ cells' = [cells EXCEPT ![name].state = x.state]
           /\ Goto(t, IF x.ok THEN "init" ELSE "load")
    /\ UNCHANGED <<builder, spec, head, call, result, seen>>

\* the winner runs the closure and stores the Arc it returns in the cell
RunInit(t) ==
    /\ At(t, "init")
    /\ cells[pc[t].static].runs < MaxThreads
    /\ LET name == pc[t].static
           n == cells[name].runs + 1
       IN  cells' = [cells EXCEPT ![name].runs = n, ![name].value = Some(ArcOf(name, n))]
    /\ Goto(t, "publish")
    /\ UNCHANGED <<builder, spec, head, call, result, seen>>

\* the winner marks the cell COMPLETE and wakes the waiters
Publish(t) ==
    /\ At(t, "publish")
    /\ cells' = [cells EXCEPT ![pc[t].static].state = "COMPLETE"]
    /\ Goto(t, "get")
    /\ UNCHANGED <<builder, spec, head, call, result, seen>>

\* a waiter is woken once the cell is no longer RUNNING
Wake(t) ==
    /\ At(t, "wait")
    /\ cells[pc[t].static].state # "RUNNING"
    /\ Goto(t, "load")
    /\ UNCHANGED <<builder, spec, head, call, result, cells, seen>>

\* the access returns the value it finds in the cell
Get(t) ==
    /\ At(t, "get")
    /\ seen' = [seen EXCEPT ![t] = cells[pc[t].static].value]
    /\ Goto(t, "done")
    /\ UNCHANGED <<builder, spec, head, call, result, cells>>

NextLazy ==
    \/ \E t \in Threads : Deref(t)
    \/ \E t \in Threads : Load(t)
    \/ \E t \in Threads : Race(t)
    \/ \E t \in Threads : RunInit(t)
    \/ \E t \in Threads : Publish(t)
    \/ \E t \in Threads : Wake(t)
    \/ \E t \in Threads : Get(t)

SpecLazy == InitLazy /\ [][NextLazy]_vars

(***************************************************************************)
(* C8                                                                      *)
(***************************************************************************)
InActiveAtHead == call.op = "active_at_head"

\* C8 as stated: if H2 dominates H1 in number, timestamp and total_difficulty,
\* a condition active at H1 is active at H2, whatever the difficulty fields are.
C8_AsStated ==
    (InActiveAtHead /\ result = Some(TRUE)) =>
        \A h2 \in ConditionHeadInputs :
            (/\ h2.number >= Unwrap(head).number
             /\ h2.timestamp >= Unwrap(head).timestamp
             /\ h2.total_difficulty >= Unwrap(head).total_difficulty)
                => active_at_head(call.cond, h2)

\* C8: monotonicity of activation.  If H2 dominates H1 in number, timestamp and
\* total_difficulty - difficulty (saturating), a condition active at H1 is
\* active at H2.
C8_Monotonicity ==
    (InActiveAtHead /\ result = Some(TRUE)) =>
        \A h2 \in ConditionHeadInputs :
            (/\ h2.number >= Unwrap(head).number
             /\ h2.timestamp >= Unwrap(head).timestamp
             /\ saturating_sub(h2.total_difficulty, h2.difficulty)
                   >= saturating_sub(Unwrap(head).total_difficulty, Unwrap(head).difficulty))
                => active_at_head(call.cond, h2)

\* a TTD condition is active at a head that another head dominates strictly
C8_Witness ==
    /\ InActiveAtHead
    /\ result = Some(TRUE)
    /\ call.cond.kind = "TTD"
    /\ Unwrap(head).number = 0
    /\ \E h2 \in ConditionHeadInputs :
          /\ h2.number > Unwrap(head).number
          /\ h2.timestamp > Unwrap(head).timestamp
          /\ h2.difficulty > Unwrap(head).difficulty
          /\ saturating_sub(h2.total_difficulty, h2.difficulty)
                >= saturating_sub(Unwrap(head).total_difficulty, Unwrap(head).difficulty)

(***************************************************************************)
(* C9                                                                      *)
(***************************************************************************)
\* C9, for the specs that keep I4 and I5 and a timestamp condition that is one of
\* the spec's: satisfy(Timestamp(t)) returns a head at which every block-class fork
\* of the spec is active, and hardfork_fork_id of a hardfork that activates by
\* timestamp is computed at such a head, so it does not stop in the block pass.
C9_SatisfyCoversBlockForks ==
    /\ (InSatisfy /\ call.cond.kind = "Timestamp") =>
          LET s == Unwrap(spec)
          IN  (I4(s) /\ I5(s) /\ call.cond \in Range(s.hardforks))
                  => InactiveBlockForks(s, Unwrap(result)) = {}
    /\ (InHardforkForkId /\ fork(Unwrap(spec), call.fork).kind = "Timestamp") =>
          LET s == Unwrap(spec)
          IN  (I4(s) /\ I5(s))
                  => InactiveBlockForks(s, satisfy(s, fork(s, call.fork))) = {}

(***************************************************************************)
(* C10                                                                     *)
(***************************************************************************)
\* C10: for every condition other than Never, satisfy(cond) returns a head at
\* which cond is active: Block(n) gives number n, TTD gives total_difficulty T,
\* Timestamp(t) gives timestamp t and the number
\* last_block_fork_before_merge_or_timestamp() or 0; all other fields are zero.
C10_SatisfyActivates ==
    InSatisfy =>
        LET s == Unwrap(spec)
            cond == call.cond
            r == Unwrap(result)
        IN  /\ active_at_head(cond, r)
            /\ cond.kind = "Block" => r = [DefaultHead EXCEPT !.number = cond.block]
            /\ cond.kind = "TTD"
                  => r = [DefaultHead EXCEPT !.total_difficulty = cond.total_difficulty]
            /\ cond.kind = "Timestamp"
                  => r = [DefaultHead EXCEPT
                             !.timestamp = cond.timestamp,
                             !.number = unwrap_or(last_block_fork_before_merge_or_timestamp(s), 0)]

\* satisfy(Timestamp(t)) takes the number of the last block fork before the merge
C10_Witness ==
    /\ InSatisfy
    /\ call.cond = Timestamp(1)
    /\ call.cond \in Range(Unwrap(spec).hardforks)
    /\ Unwrap(result).number = 2
    /\ Unwrap(result).timestamp = 1

(***************************************************************************)
(* C11                                                                     *)
(***************************************************************************)
InHardforkForkFilter == call.op = "hardfork_fork_filter"

\* the hardfork map has no entry for hf, or the entry Never
NeverOrAbsent(s, hf) == hf \notin DOMAIN s.hardforks \/ s.hardforks[hf] = Never

\* C11: hardfork_fork_id(hf) and hardfork_fork_filter(hf) return None exactly when
\* the hardfork map has the entry Never for hf or no entry for hf, and Some
\* otherwise: Some of the fork id, or of the fork filter, at the head satisfy
\* returns for the condition of hf, which is then not Never.
C11_NoneExactlyForNever ==
    /\ InHardforkForkId =>
          LET s == Unwrap(spec)
              r == Unwrap(result)
          IN  /\ r = None <=> NeverOrAbsent(s, call.fork)
              /\ IsSome(r) <=> ~NeverOrAbsent(s, call.fork)
              /\ IsSome(r) =>
                    /\ fork(s, call.fork).kind \in {"Block", "TTD", "Timestamp"}
                    /\ Unwrap(r) = fork_id(s, satisfy(s, s.hardforks[call.fork]))
    /\ InHardforkForkFilter =>
          LET s == Unwrap(spec)
              r == Unwrap(result)
          IN  /\ r = None <=> NeverOrAbsent(s, call.fork)
              /\ IsSome(r) <=> ~NeverOrAbsent(s, call.fork)
              /\ IsSome(r) =>
                    /\ fork(s, call.fork).kind \in {"Block", "TTD", "Timestamp"}
                    /\ Unwrap(r).head = satisfy(s, s.hardforks[call.fork])

\* hardfork_fork_filter is asked about a hardfork with the entry Never, in a spec
\* that has another fork
C11_Witness ==
    /\ InHardforkForkFilter
    /\ call.fork \in DOMAIN Unwrap(spec).hardforks
    /\ Unwrap(spec).hardforks[call.fork] = Never
    /\ Cardinality(DOMAIN Unwrap(spec).hardforks) = 2
    /\ result = Some(None)

(***************************************************************************)
(* C12                                                                     *)
(***************************************************************************)
\* the spec s with the genesis hash it computes kept as its cached genesis hash
WithGenesisHashOf(s, t) == [t EXCEPT !.genesis_hash = Some(genesis_hash(s))]

\* the timestamps of s that are later than the genesis timestamp, in canonical order
LaterTimestamps(s) == SelectSeq(TimestampPoints(s), LAMBDA t : t > s.genesis.timestamp)

\* the hardforks of s with a timestamp at or before the genesis timestamp
GenesisTimestampForks(s) ==
    {hf \in DOMAIN s.hardforks :
        s.hardforks[hf].kind = "Timestamp"
            /\ s.hardforks[hf].timestamp <= s.genesis.timestamp}

\* the head has reached none of the later timestamps
ReachesNoLaterTimestamp(s, h) ==
    \A i \in 1..Len(LaterTimestamps(s)) : h.timestamp < LaterTimestamps(s)[i]

\* no fork of s has an activation point after genesis
NoForkAfterGenesis(s) ==
    /\ LaterTimestamps(s) = <<>>
    /\ \A i \in 1..Len(BlockPoints(s)) : BlockPoints(s)[i] = 0

\* C12 as stated: for every spec, a Timestamp fork at or before genesis.timestamp
\* is neither folded nor reported as next; at a head that reaches no later
\* timestamp, next is the first timestamp in canonical order that is greater
\* than genesis.timestamp; with Shanghai and Cancun both at genesis.timestamp the
\* fork id is (CRC32(genesis hash), 0).
C12_AsStated ==
    InForkId =>
        LET s == Unwrap(spec)
            h == Unwrap(head)
            id == Unwrap(result)
        IN  /\ \A hf \in GenesisTimestampForks(s) :
                  fork_id(WithGenesisHashOf(s, Removed(s, hf)), h) = id
            /\ (LaterTimestamps(s) # <<>> /\ ReachesNoLaterTimestamp(s, h))
                  => id.next = LaterTimestamps(s)[1]
            /\ GenesisTimestampForks(s) = {"Shanghai", "Cancun"}
                  => id = ForkId(ForkHashFrom(genesis_hash(s)), 0)

\* C12: timestamp forks active at genesis are excluded from the fork id.  For
\* every spec and head, a Timestamp fork at or before genesis.timestamp is
\* neither folded nor reported as next: the fork id is that of the spec without
\* the fork and with the same genesis hash.  At a head at which every
\* block-class fork is active and which reaches no later timestamp, next is the
\* first timestamp in canonical order that is greater than genesis.timestamp and
\* the hash folds no timestamp.  With Shanghai and Cancun both at
\* genesis.timestamp and no other fork after genesis, the fork id is
\* (CRC32(genesis hash), 0).
C12_GenesisTimestampsExcluded ==
    InForkId =>
        LET s == Unwrap(spec)
            h == Unwrap(head)
            id == Unwrap(result)
        IN  /\ \A hf \in GenesisTimestampForks(s) :
                  fork_id(WithGenesisHashOf(s, Removed(s, hf)), h) = id
            /\ (/\ LaterTimestamps(s) # <<>>
                 /\ ReachesNoLaterTimestamp(s, h)
                 /\ InactiveBlockForks(s, h) = {})
                  => /\ id.next = LaterTimestamps(s)[1]
                     /\ id.hash = fork_id(s, [h EXCEPT !.timestamp = 0]).hash
            /\ (GenesisTimestampForks(s) = {"Shanghai", "Cancun"} /\ NoForkAfterGenesis(s))
                  => id = ForkId(ForkHashFrom(genesis_hash(s)), 0)

\* Shanghai and Cancun are both at the genesis timestamp 1 and the head is past it
C12_Witness ==
    /\ InForkId
    /\ LET s == Unwrap(spec)
       IN  /\ s.genesis.timestamp = 1
           /\ GenesisTimestampForks(s) = {"Shanghai", "Cancun"}
           /\ s.hardforks["Shanghai"] = Timestamp(1)
           /\ s.hardforks["Cancun"] = Timestamp(1)
           /\ Unwrap(head).timestamp = 2
           /\ Unwrap(result) = ForkId(ForkHashFrom(genesis_hash(s)), 0)

(***************************************************************************)
(* C13                                                                     *)
(***************************************************************************)
InActiveAtTtd == call.op = "active_at_ttd"

\* C13: active_at_ttd(td, d) is true exactly for a TTD condition with threshold T
\* when td - d >= T, the difference taken as 0 when d > td, and false for every
\* other variant.  So the fork is not active on the terminal block (td >= T, and
\* td - d < T), it is active on every block after it, and with d > td the answer
\* is that of 0 >= T.
C13_ActiveAtTtd ==
    InActiveAtTtd =>
        LET cond == call.cond
            td == call.ttd
            d == call.difficulty
            r == Unwrap(result)
        IN  /\ cond.kind # "TTD" => r = FALSE
            /\ cond.kind = "TTD" =>
                  LET T == cond.total_difficulty
                  IN  /\ r <=> (td - d >= T \/ T = 0)
                      /\ (d <= td /\ td - d < T /\ T <= td)
                            => /\ r = FALSE
                               /\ \A d2 \in 0..(MaxTd + 1) : active_at_ttd(cond, td + d2, d2)
                      /\ d > td => (r <=> 0 >= T)

\* the terminal PoW block of MAINNET: its total difficulty is above the threshold
\* of Paris, and Paris is not active on it
C13_Witness ==
    /\ InActiveAtTtd
    /\ call.cond = MainnetHardforks["Paris"]
    /\ call.ttd = 58750003
    /\ call.difficulty = 11
    /\ result = Some(FALSE)

(***************************************************************************)
(* C14                                                                     *)
(***************************************************************************)
CanonicalIndex(hf) == CHOOSE i \in 1..Len(HardforkOrder) : HardforkOrder[i] = hf

\* X and every hardfork canonically earlier than X
UpTo(X) == {hf \in Hardfork : CanonicalIndex(hf) <= CanonicalIndex(X)}

\* the hardforks no X_activated helper inserts
NoHelperForks == {"Dao", "MuirGlacier", "ArrowGlacier", "GrayGlacier"}

\* the condition active at genesis: block 0, or threshold 0 with fork block 0, or
\* timestamp 0
GenesisCondition(hf) ==
    IF hf = "Paris" THEN TTD(Some(0), 0)
    ELSE IF hf \in {"Shanghai", "Cancun"} THEN Timestamp(0)
    ELSE Block(0)

ActiveAtGenesis(hardforks, forks) ==
    \A hf \in forks : hf \in DOMAIN hardforks /\ hardforks[hf] = GenesisCondition(hf)

\* C14 as stated: after X_activated() the built spec contains X and every
\* hardfork canonically earlier than X, each with a condition active at genesis.
C14_AsStated ==
    IsSome(builder) =>
        \A X \in ActivatedHelpers :
            LET after == activated(Unwrap(builder), X)
            IN  build_panic(after) = None
                    => ActiveAtGenesis(build(after).hardforks, UpTo(X))

\* C14: cumulative builder helpers.  After X_activated() the builder, and the spec
\* built from it, contain X and every hardfork canonically earlier than X other
\* than Dao, MuirGlacier, ArrowGlacier and GrayGlacier, each with a condition
\* active at genesis: Block(0), TTD with threshold 0 and fork block 0 for Paris,
\* Timestamp(0) for Shanghai and Cancun.  Every other entry, the chain and the
\* genesis stay as the builder had them.
C14_CumulativeHelpers ==
    IsSome(builder) =>
        \A X \in ActivatedHelpers :
            LET before == Unwrap(builder)
                after == activated(before, X)
                set == UpTo(X) \ NoHelperForks
            IN  /\ ActiveAtGenesis(after.hardforks, set)
                /\ DOMAIN after.hardforks = DOMAIN before.hardforks \cup set
                /\ \A hf \in DOMAIN before.hardforks \ set :
                      after.hardforks[hf] = before.hardforks[hf]
                /\ after.chain = before.chain
                /\ after.genesis = before.genesis
                /\ build_panic(after) = None
                      => /\ build(after).hardforks = after.hardforks
                         /\ ActiveAtGenesis(build(after).hardforks, set)

\* cancun_activated() was called on the builder, and the builder can be built
C14_Witness ==
    /\ IsSome(builder)
    /\ build_panic(Unwrap(builder)) = None
    /\ "Homestead" \in DOMAIN Unwrap(builder).hardforks
    /\ Unwrap(builder) = cancun_activated(Unwrap(builder))
    /\ Cardinality(DOMAIN Unwrap(builder).hardforks) = Cardinality(UpTo("Cancun")) - 4

(***************************************************************************)
(* C15                                                                     *)
(***************************************************************************)
InIsShanghaiActive == call.op = "is_shanghai_active_at_timestamp"
InIsCancunActive == call.op = "is_cancun_active_at_timestamp"

\* the Timestamp value of the entry of hf, None when the entry is missing or not
\* timestamp-based
TimestampEntry(hardforks, hf) ==
    IF hf \in DOMAIN hardforks /\ hardforks[hf].kind = "Timestamp"
    THEN Some(hardforks[hf].timestamp)
    ELSE None

\* C15: the timestamp cache agrees with the hardfork map.  In every spec that
\* build(), From<Genesis> or the MAINNET static produced, fork_timestamps.shanghai
\* and .cancun are the Timestamp values of the Shanghai and Cancun entries, None
\* when the entry is missing or not timestamp-based; and
\* is_shanghai_active_at_timestamp(t) and is_cancun_active_at_timestamp(t) return
\* what is_fork_active_at_timestamp(hf, t) returns: true exactly when the entry
\* is Timestamp(ts) with t >= ts.
C15_CacheAgreesWithMap ==
    /\ IsSome(spec) =>
          LET s == Unwrap(spec)
          IN  /\ s.fork_timestamps.shanghai = TimestampEntry(s.hardforks, "Shanghai")
              /\ s.fork_timestamps.cancun = TimestampEntry(s.hardforks, "Cancun")
    /\ (InIsShanghaiActive \/ InIsCancunActive) =>
          LET s == Unwrap(spec)
              hf == IF InIsShanghaiActive THEN "Shanghai" ELSE "Cancun"
              entry == TimestampEntry(s.hardforks, hf)
          IN  /\ Unwrap(result) = is_fork_active_at_timestamp(s, hf, call.timestamp)
              /\ Unwrap(result) <=> (IsSome(entry) /\ call.timestamp >= Unwrap(entry))

\* Cancun is asked about in a spec whose Shanghai and Cancun timestamps differ,
\* at a timestamp between the two
C15_Witness ==
    /\ InIsCancunActive
    /\ Unwrap(spec).fork_timestamps.shanghai = Some(0)
    /\ Unwrap(spec).fork_timestamps.cancun = Some(MaxTime)
    /\ call.timestamp = 1
    /\ result = Some(FALSE)

(***************************************************************************)
(* C16                                                                     *)
(***************************************************************************)
InBaseFeeParams == call.op = "base_fee_params"

\* the entries of a base fee table whose hardfork has a timestamp condition of
\* the spec that the timestamp has reached
ActiveEntries(s, table, timestamp) ==
    {i \in 1..Len(table) :
        /\ table[i][1] \in DOMAIN s.hardforks
        /\ s.hardforks[table[i][1]].kind = "Timestamp"
        /\ timestamp >= s.hardforks[table[i][1]].timestamp}

Last(S) == CHOOSE i \in S : \A j \in S : j <= i

\* C16: base_fee_params(t) is P for Constant(P); for Variable(table) it is the
\* parameters of the last entry, in table order, whose hardfork is active at
\* timestamp t, those of the first entry when no entry is active, and the
\* Ethereum default when the table is empty.
C16_LatestMatchingForkWins ==
    InBaseFeeParams =>
        LET s == Unwrap(spec)
            bf == s.base_fee_params
            t == call.timestamp
        IN  IF bf.kind = "Constant" THEN Unwrap(result) = bf.params
            ELSE LET active == ActiveEntries(s, bf.table, t)
                 IN  /\ active # {} => Unwrap(result) = bf.table[Last(active)][2]
                     /\ active = {} /\ Len(bf.table) > 0 => Unwrap(result) = bf.table[1][2]
                     /\ Len(bf.table) = 0 => Unwrap(result) = "ethereum"

\* a table of two entries, out of activation order and both active at the
\* timestamp: the parameters are those of the second entry
C16_Witness ==
    /\ InBaseFeeParams
    /\ Unwrap(spec).base_fee_params.kind = "Variable"
    /\ LET table == Unwrap(spec).base_fee_params.table
       IN  /\ Len(table) = 2
           /\ table[1][1] = "Cancun"
           /\ table[2][1] = "Shanghai"
           /\ ActiveEntries(Unwrap(spec), table, call.timestamp) = {1, 2}
           /\ result = Some(table[2][2])

(***************************************************************************)
(* C17                                                                     *)
(***************************************************************************)
InFinalParisTotalDifficulty == call.op = "final_paris_total_difficulty"

\* C17: final_paris_total_difficulty(n) is Some(td) exactly when the spec records
\* a Paris activation (block, td) and n >= block, and None otherwise.
C17_SomeFromParisBlockOn ==
    InFinalParisTotalDifficulty =>
        LET paris == Unwrap(spec).paris_block_and_final_difficulty
            n == call.block_number
            r == Unwrap(result)
        IN  /\ IsSome(r) <=> (paris # None /\ n >= paris[1][1])
            /\ IsSome(r) => Unwrap(r) = paris[1][2]
            /\ (paris = None \/ n < paris[1][1]) => r = None

\* MAINNET asked at its Paris block
C17_Witness ==
    /\ InFinalParisTotalDifficulty
    /\ Unwrap(spec) = MAINNET
    /\ call.block_number = 15537394
    /\ result = Some(Some(58750003))

(***************************************************************************)
(* C18                                                                     *)
(***************************************************************************)
InPanic == call.op = "panic"

\* C18: build() panics exactly when the chain or the genesis of the builder is
\* unset, and returns the spec otherwise, whichever forks the builder holds; the
\* two fields start unset, only chain(), genesis() and mainnet() set them, and no
\* builder operation unsets them or touches them when adding or removing forks.
C18_BuildPanicsExactlyWhenUnset ==
    [][/\ Build =>
            LET b == Unwrap(builder)
            IN  /\ call'.op = "panic" <=> (b.chain = None \/ b.genesis = None)
                /\ call'.op # "panic" =>
                      /\ IsSome(spec')
                      /\ Unwrap(spec').chain = Unwrap(b.chain)
                      /\ Unwrap(spec').genesis = Unwrap(b.genesis)
       /\ IsSome(builder) /\ IsSome(builder') =>
            LET b == Unwrap(builder)
                after == Unwrap(builder')
            IN  /\ IsSome(b.chain) => IsSome(after.chain)
                /\ IsSome(b.genesis) => IsSome(after.genesis)
                /\ (WithFork \/ WithoutFork \/ XActivated) =>
                      after.chain = b.chain /\ after.genesis = b.genesis
                /\ after.chain # b.chain => SetChain \/ BuilderMainnet
                /\ after.genesis # b.genesis => SetGenesis \/ BuilderMainnet]_vars

\* build() of a builder whose chain was set and whose genesis was not
C18_Witness ==
    /\ InPanic
    /\ call.message = "The genesis is required"
    /\ builder = None
    /\ spec = None

(***************************************************************************)
(* C19                                                                     *)
(***************************************************************************)
\* the hardforks a genesis config can give: those of its block fields, Paris,
\* Shanghai and Cancun
GenesisForks ==
    {BlockHardforkOpts[i][1] : i \in 1..Len(BlockHardforkOpts)}
        \cup {"Paris", "Shanghai", "Cancun"}

\* the entry of hardfork hf is exactly the condition given, or absent for None
EntryIs(hardforks, hf, cond) ==
    IF IsSome(cond)
    THEN hf \in DOMAIN hardforks /\ hardforks[hf] = Unwrap(cond)
    ELSE hf \notin DOMAIN hardforks

\* C19: ChainSpec::from(genesis) has Block(n) for each present block-numbered
\* config field, Paris as TTD{fork_block: merge_netsplit_block, total_difficulty:
\* ttd} exactly when terminal_total_difficulty is present, Timestamp(t) for
\* Shanghai and Cancun exactly when their time fields are present, and no other
\* entry; the chain id is copied, the base fee params are the constant default,
\* and genesis hash, recorded Paris activation and deposit contract are absent.
C19_GenesisAdapter ==
    [][FromGenesis =>
          LET s == Unwrap(spec')
              config == s.genesis.config
          IN  /\ \A i \in 1..Len(BlockHardforkOpts) :
                    LET n == config[BlockHardforkOpts[i][2]]
                    IN  EntryIs(s.hardforks, BlockHardforkOpts[i][1],
                                IF IsSome(n) THEN Some(Block(Unwrap(n))) ELSE None)
              /\ EntryIs(s.hardforks, "Paris",
                         IF IsSome(config.terminal_total_difficulty)
                         THEN Some(TTD(config.merge_netsplit_block,
                                       Unwrap(config.terminal_total_difficulty)))
                         ELSE None)
              /\ EntryIs(s.hardforks, "Shanghai",
                         IF IsSome(config.shanghai_time)
                         THEN Some(Timestamp(Unwrap(config.shanghai_time))) ELSE None)
              /\ EntryIs(s.hardforks, "Cancun",
                         IF IsSome(config.cancun_time)
                         THEN Some(Timestamp(Unwrap(config.cancun_time))) ELSE None)
              /\ DOMAIN s.hardforks \subseteq GenesisForks
              /\ s.chain = config.chain_id
              /\ s.base_fee_params = Constant("ethereum")
              /\ s.genesis_hash = None
              /\ s.paris_block_and_final_difficulty = None
              /\ s.deposit_contract = None]_vars

\* the spec of a genesis with chain id 1337, a DAO block, a terminal total
\* difficulty with a merge netsplit block, and a Shanghai time
C19_Witness ==
    /\ IsSome(spec)
    /\ LET s == Unwrap(spec)
       IN  /\ s.genesis.config.chain_id = 1337
           /\ s.chain = 1337
           /\ s.genesis.config.dao_fork_block = Some(1)
           /\ s.genesis.config.merge_netsplit_block = Some(1)
           /\ s.genesis.config.cancun_time = None
           /\ DOMAIN s.hardforks = {"Dao", "Paris", "Shanghai"}
           /\ s.hardforks["Paris"] = TTD(Some(1), MaxTd)
           /\ s.hardforks["Shanghai"] = Timestamp(MaxTime)

(***************************************************************************)
(* C20                                                                     *)
(***************************************************************************)
InDisplayHardforks == call.op = "display_hardforks"

\* how many entries of a display group carry the name of hardfork hf
Shown(group, hf) == Cardinality({i \in 1..Len(group) : group[i].name = to_string(hf)})

\* the entries of a display group follow the canonical hardfork order
InCanonicalOrder(group) ==
    \A i, j \in 1..Len(group) :
        i < j =>
            \E a, b \in Hardfork :
                /\ group[i].name = to_string(a)
                /\ group[j].name = to_string(b)
                /\ CanonicalIndex(a) < CanonicalIndex(b)

\* C20: every entry of the hardfork map with a condition other than Never is in
\* exactly one of the three display groups (Block in pre_merge, TTD in with_merge,
\* Timestamp in post_merge), each group is in canonical hardfork order, and a
\* Never entry is in no group.
C20_DisplayPartition ==
    InDisplayHardforks =>
        LET hardforks == Unwrap(spec).hardforks
            d == Unwrap(result)
        IN  /\ \A hf \in Hardfork :
                  LET kind == IF hf \in DOMAIN hardforks THEN hardforks[hf].kind ELSE "Never"
                  IN  /\ Shown(d.pre_merge, hf) = IF kind = "Block" THEN 1 ELSE 0
                      /\ Shown(d.with_merge, hf) = IF kind = "TTD" THEN 1 ELSE 0
                      /\ Shown(d.post_merge, hf) = IF kind = "Timestamp" THEN 1 ELSE 0
            /\ Len(d.pre_merge) + Len(d.with_merge) + Len(d.post_merge)
                  = Cardinality({hf \in DOMAIN hardforks : hardforks[hf] # Never})
            /\ InCanonicalOrder(d.pre_merge)
            /\ InCanonicalOrder(d.with_merge)
            /\ InCanonicalOrder(d.post_merge)

\* a map with entries of all four kinds: a block fork, Paris by total difficulty,
\* Shanghai disabled, and London and Cancun by timestamp, shown in that order
C20_Witness ==
    /\ InDisplayHardforks
    /\ LET hardforks == Unwrap(spec).hardforks
           d == Unwrap(result)
       IN  /\ DOMAIN hardforks = {"Homestead", "London", "Paris", "Shanghai", "Cancun"}
           /\ hardforks["Shanghai"] = Never
           /\ Len(d.pre_merge) = 1
           /\ Len(d.with_merge) = 1
           /\ Len(d.post_merge) = 2
           /\ d.post_merge[1].name = "London"
           /\ d.post_merge[2].name = "Cancun"

(***************************************************************************)
(* C21                                                                     *)
(***************************************************************************)
\* C21: under any interleaving of first accesses to a well-known spec its closure
\* runs at most once, every access that returned holds the same Arc, and that
\* Arc holds the fully built spec of the static; no access returns an empty cell.
C21_OneShotInitialization ==
    /\ \A name \in StaticNames : cells[name].runs <= 1
    /\ \A t \in Threads :
          At(t, "done") =>
             /\ IsSome(seen[t])
             /\ Unwrap(seen[t]) = ArcOf(pc[t].static, 1)
             /\ seen[t] = cells[pc[t].static].value
    /\ \A t, u \in Threads :
          At(t, "done") /\ At(u, "done") /\ pc[t].static = pc[u].static => seen[t] = seen[u]

\* two threads raced for MAINNET, one of them ran the closure, and both accesses
\* returned
C21_Witness ==
    /\ \A t \in Threads : At(t, "done") /\ pc[t].static = "MAINNET"
    /\ cells["MAINNET"].runs = 1
    /\ \A t \in Threads : seen[t] = Some(ArcOf("MAINNET", 1))

(***************************************************************************)
(* C22                                                                     *)
(***************************************************************************)
\* C22: Never conditions are ignored in head synthesis.  Inserting (hf, Never)
\* for a hardfork the spec does not have changes neither
\* last_block_fork_before_merge_or_timestamp() nor satisfy(cond), nor
\* hardfork_fork_id(g) of any other hardfork g.
C22_NeverIgnoredInHeadSynthesis ==
    /\ InSatisfy =>
          LET s == Unwrap(spec)
          IN  \A hf \in InsertableForks \ DOMAIN s.hardforks :
                  /\ last_block_fork_before_merge_or_timestamp(Inserted(s, hf, Never))
                        = last_block_fork_before_merge_or_timestamp(s)
                  /\ satisfy(Inserted(s, hf, Never), call.cond) = Unwrap(result)
    /\ InHardforkForkId =>
          LET s == Unwrap(spec)
          IN  \A hf \in InsertableForks \ (DOMAIN s.hardforks \cup {call.fork}) :
                  hardfork_fork_id(Inserted(s, hf, Never), call.fork) = Unwrap(result)

(***************************************************************************)
(* C23                                                                     *)
(***************************************************************************)
InDisplayToString == call.op = "display_hardforks().to_string"

\* the Paris block the spec records
KnownParisBlock(s) ==
    IF IsSome(s.paris_block_and_final_difficulty)
    THEN Some(Unwrap(s.paris_block_and_final_difficulty)[1])
    ELSE None

\* the lines of the displayed text that carry a note on the merge
MergeLines(text) == SelectSeq(text, LAMBDA line : "fork" \in DOMAIN line /\ IsSome(line.fork.note))

\* the hardforks of the spec with a TTD condition, in canonical order
TtdForks(s) == SelectSeq(HardforkKeys(s.hardforks), LAMBDA hf : s.hardforks[hf].kind = "TTD")

Known(present) ==
    IF present THEN "network is known to be merged" ELSE "network is not known to be merged"

\* C23 as stated: the merge group shows the known Paris block when the spec
\* records one and otherwise keeps the TTD condition's own fork_block, and the
\* line reads "network is known to be merged" exactly when that fork_block is
\* present.
C23_AsStated ==
    /\ InDisplayHardforks =>
          LET s == Unwrap(spec)
              shown == Unwrap(result).with_merge
              ttd == TtdForks(s)
          IN  \A i \in 1..Len(shown) :
                  shown[i].activated_at.fork_block
                      = IF IsSome(KnownParisBlock(s)) THEN KnownParisBlock(s)
                        ELSE s.hardforks[ttd[i]].fork_block
    /\ InDisplayToString =>
          LET s == Unwrap(spec)
              lines == MergeLines(Unwrap(result))
              ttd == TtdForks(s)
          IN  \A i \in 1..Len(lines) :
                  lines[i].fork.note
                      = Some(Known(IsSome(KnownParisBlock(s))
                                      \/ IsSome(s.hardforks[ttd[i]].fork_block)))

\* C23: the merge group shows, in place of the fork_block of each TTD condition,
\* the Paris block the spec records, or none when the spec records none; the
\* line reads "network is known to be merged" exactly when the spec records a
\* Paris activation, so a spec with no recorded Paris activation and a TTD
\* condition with fork_block Some(b) is shown as not known to be merged.
C23_MergeLineFollowsRecordedParis ==
    /\ InDisplayHardforks =>
          LET s == Unwrap(spec)
              shown == Unwrap(result).with_merge
              ttd == TtdForks(s)
          IN  /\ Len(shown) = Len(ttd)
              /\ \A i \in 1..Len(shown) :
                    /\ shown[i].name = to_string(ttd[i])
                    /\ shown[i].activated_at
                          = TTD(KnownParisBlock(s), s.hardforks[ttd[i]].total_difficulty)
    /\ InDisplayToString =>
          LET s == Unwrap(spec)
              lines == MergeLines(Unwrap(result))
              ttd == TtdForks(s)
          IN  /\ Len(lines) = Len(ttd)
              /\ \A i \in 1..Len(lines) :
                    /\ lines[i].fork.name = <<to_string(ttd[i])>>
                    /\ lines[i].fork.at = s.hardforks[ttd[i]].total_difficulty
                    /\ lines[i].fork.note = Some(Known(IsSome(KnownParisBlock(s))))

\* the text of a spec without a recorded Paris activation whose Paris condition
\* has a fork block: the line says the network is not known to be merged
C23_Witness ==
    /\ InDisplayToString
    /\ Unwrap(spec).paris_block_and_final_difficulty = None
    /\ "Paris" \in DOMAIN Unwrap(spec).hardforks
    /\ Unwrap(spec).hardforks["Paris"] = TTD(Some(1), MaxTd)
    /\ \E i \in 1..Len(Unwrap(result)) :
          Unwrap(result)[i] = [fork |-> [name |-> <<"Paris">>, at |-> MaxTd,
                                         note |-> Some("network is not known to be merged"),
                                         newline |-> TRUE]]

(***************************************************************************)
(* C24                                                                     *)
(***************************************************************************)
\* the timestamps the timestamp pass gets through at h: those of the forks after
\* genesis, in canonical order, up to the first that h has not reached
ActiveTimestamps(s, h) ==
    LET timestamps == ForkTimestampsAfterGenesis(s)
        late == {i \in 1..Len(timestamps) : timestamps[i] > h.timestamp}
    IN  IF late = {} THEN timestamps ELSE SubSeq(timestamps, 1, Min(late) - 1)

\* C24: the duplicate check uses one running value across both passes.  When the
\* block pass gets through, the hash folds the blocks of the block-class forks
\* followed by the active timestamps, each point unless it equals the point
\* folded last before it (0 at the start); a first active timestamp equal to the
\* last folded block adds nothing to the hash.
C24_OneRunningValue ==
    InForkId =>
        LET s == Unwrap(spec)
            h == Unwrap(head)
            id == Unwrap(result)
        IN  InactiveBlockForks(s, h) = {} =>
                id.hash = FoldAll(ForkHashFrom(genesis_hash(s)),
                                  FoldedPoints(BlockPoints(s) \o ActiveTimestamps(s, h)), 1)

\* a block fork at 1 and a timestamp fork at 1 after a genesis at 0, both active:
\* the hash folds the point 1 once
C24_Witness ==
    /\ InForkId
    /\ LET s == Unwrap(spec)
           h == Unwrap(head)
       IN  /\ s.genesis.timestamp = 0
           /\ BlockPoints(s) = <<1>>
           /\ ForkTimestampsAfterGenesis(s) = <<1>>
           /\ InactiveBlockForks(s, h) = {}
           /\ h.timestamp >= 1
           /\ result = Some(ForkId(ForkHashAdd(ForkHashFrom(genesis_hash(s)), 1), 0))


(***************************************************************************)
(* C25                                                                     *)
(***************************************************************************)
\* the map after is the map before with the hardforks of set written to the
\* conditions of written and every other entry as it was
WrittenOver(before, after, set, written) ==
    /\ DOMAIN after = DOMAIN before \cup set
    /\ \A hf \in set : after[hf] = written[hf]
    /\ \A hf \in DOMAIN before \ set : after[hf] = before[hf]

\* C25: at most one condition per hardfork, last write wins.  Whatever sequence of
\* builder operations made the builder, the next operation leaves for each
\* hardfork it touches only the condition it writes, and no entry after
\* without_fork, and leaves every other entry as it was: with_fork and
\* paris_at_ttd replace the condition of their hardfork, also one that an
\* X_activated helper wrote; an X_activated helper overwrites the conditions set
\* earlier for the hardforks it covers; build copies the map.
C25_LastWriteWins ==
    IsSome(builder) =>
        LET b == Unwrap(builder)
        IN  /\ \A hf \in BuilderForks, condition \in ConditionInputs :
                  WrittenOver(b.hardforks, with_fork(b, hf, condition).hardforks, {hf},
                              [x \in {hf} |-> condition])
            /\ \A hf \in BuilderForks :
                  /\ hf \notin DOMAIN without_fork(b, hf).hardforks
                  /\ WrittenOver(without_fork(b, hf).hardforks, b.hardforks,
                                 DOMAIN b.hardforks \cap {hf}, b.hardforks)
            /\ WrittenOver(b.hardforks, paris_at_ttd(b, MaxTd).hardforks, {"Paris"},
                           [x \in {"Paris"} |-> TTD(None, MaxTd)])
            /\ \A X \in ActivatedHelpers :
                  WrittenOver(b.hardforks, activated(b, X).hardforks, UpTo(X) \ NoHelperForks,
                              [x \in Hardfork |-> GenesisCondition(x)])
            /\ build_panic(b) = None => build(b).hardforks = b.hardforks

\* a helper at or after Berlin wrote Homestead and Berlin (no other operation
\* writes Berlin), and a later with_fork(Homestead, Never) replaced the condition
\* of Homestead only
C25_Witness ==
    /\ IsSome(builder)
    /\ build_panic(Unwrap(builder)) = None
    /\ Cardinality(DOMAIN Unwrap(builder).hardforks) > MaxForks
    /\ "Homestead" \in DOMAIN Unwrap(builder).hardforks
    /\ Unwrap(builder).hardforks["Homestead"] = Never
    /\ "Berlin" \in DOMAIN Unwrap(builder).hardforks
    /\ Unwrap(builder).hardforks["Berlin"] = Block(0)
    /\ "London" \in DOMAIN Unwrap(builder).hardforks

(***************************************************************************)
(* C26                                                                     *)
(***************************************************************************)
InGenesisHeader == call.op = "genesis_header"

\* the spec has a Timestamp(t) entry for hf with t no later than the genesis
\* timestamp
ActiveAtGenesisTimestamp(s, hf) ==
    /\ hf \in DOMAIN s.hardforks
    /\ s.hardforks[hf].kind = "Timestamp"
    /\ s.hardforks[hf].timestamp <= s.genesis.timestamp

\* C26: the fork-dependent fields of the genesis header follow activation at
\* genesis.  withdrawals_root is present, and the empty-withdrawals constant, iff
\* Shanghai is active at genesis.timestamp.  parent_beacon_block_root (zero),
\* blob_gas_used and excess_blob_gas (the genesis value, or 0) are all present iff
\* Cancun is active at genesis.timestamp, and otherwise all three are absent.
C26_HeaderFollowsGenesisActivation ==
    (InGenesisHeader /\ IsSome(result)) =>
        LET s == Unwrap(spec)
            header == Unwrap(result)
            g == s.genesis
        IN  /\ header.withdrawals_root =
                  (IF ActiveAtGenesisTimestamp(s, "Shanghai")
                   THEN Some("EMPTY_WITHDRAWALS") ELSE None)
            /\ IF ActiveAtGenesisTimestamp(s, "Cancun")
               THEN /\ header.parent_beacon_block_root = Some(0)
                    /\ header.blob_gas_used =
                          (IF IsSome(g.blob_gas_used) THEN g.blob_gas_used ELSE Some(0))
                    /\ header.excess_blob_gas =
                          (IF IsSome(g.excess_blob_gas) THEN g.excess_blob_gas ELSE Some(0))
               ELSE /\ header.parent_beacon_block_root = None
                    /\ header.blob_gas_used = None
                    /\ header.excess_blob_gas = None

\* the header of a genesis at timestamp 1 that sets both blob gas fields, with
\* Shanghai active at it and Cancun at a later timestamp: a withdrawals root and
\* none of the three Cancun fields
C26_Witness ==
    /\ InGenesisHeader
    /\ IsSome(result)
    /\ Unwrap(spec).genesis.timestamp = 1
    /\ Unwrap(spec).genesis.blob_gas_used = Some(1)
    /\ Unwrap(spec).genesis.excess_blob_gas = Some(2)
    /\ fork(Unwrap(spec), "Shanghai") = Timestamp(0)
    /\ fork(Unwrap(spec), "Cancun") = Timestamp(MaxTime)
    /\ Unwrap(result).withdrawals_root = Some("EMPTY_WITHDRAWALS")
    /\ Unwrap(result).excess_blob_gas = None

(***************************************************************************)
(* C27                                                                     *)
(***************************************************************************)
InInitialBaseFee == call.op = "initial_base_fee"

\* the London entry of the spec is a block no later than 0, or a total
\* difficulty threshold with a fork block no later than 0
LondonActiveAtBlock0(s) ==
    /\ "London" \in DOMAIN s.hardforks
    /\ LET london == s.hardforks["London"]
       IN  \/ london.kind = "Block" /\ london.block = 0
           \/ london.kind = "TTD" /\ london.fork_block = Some(0)

\* C27: initial_base_fee() is defined iff London is active at block 0.  When it is
\* defined its value is genesis.base_fee_per_gas if that is set and the protocol
\* default otherwise; when London is not active at block 0 it is absent even if
\* the genesis document sets a base fee.
C27_InitialBaseFee ==
    (InInitialBaseFee /\ IsSome(result)) =>
        LET s == Unwrap(spec)
            fee == s.genesis.base_fee_per_gas
        IN  Unwrap(result) =
                (IF LondonActiveAtBlock0(s)
                 THEN (IF IsSome(fee) THEN fee ELSE Some(EIP1559_INITIAL_BASE_FEE))
                 ELSE None)

\* London at block 1 and a genesis document that sets a base fee: no initial
\* base fee
C27_Witness ==
    /\ InInitialBaseFee
    /\ IsSome(result)
    /\ fork(Unwrap(spec), "London") = Block(1)
    /\ Unwrap(spec).genesis.base_fee_per_gas = Some(7)
    /\ Unwrap(result) = None

(***************************************************************************)
(* C28                                                                     *)
(***************************************************************************)
\* the hardforks of the spec with a block-class condition
BlockClassForks(s) == {hf \in DOMAIN s.hardforks : IsBlockClass(s.hardforks[hf])}

\* the hardforks of the spec with a timestamp later than the genesis timestamp
LaterTimestampForks(s) ==
    {hf \in DOMAIN s.hardforks :
        /\ s.hardforks[hf].kind = "Timestamp"
        /\ s.hardforks[hf].timestamp > s.genesis.timestamp}

\* the block or timestamp of such a hardfork
PointOf(s, hf) ==
    IF s.hardforks[hf].kind = "Timestamp" THEN s.hardforks[hf].timestamp
    ELSE BlockOf(s.hardforks[hf])

\* those of a set of hardforks that are not active at the head
NotActive(s, forks, h) == {hf \in forks : ~active_at_head(s.hardforks[hf], h)}

\* next = n with n # 0 implies a block-class fork at n, or a timestamp fork at
\* n later than the genesis timestamp, that is not active at the head
NextIsPending(s, h, id) ==
    id.next # 0 =>
        \E hf \in NotActive(s, BlockClassForks(s) \cup LaterTimestampForks(s), h) :
            PointOf(s, hf) = id.next

\* C28: soundness of next.  For every spec and head, fork_id(head).next = n with
\* n # 0 implies the spec has a block-class fork at block n, or a timestamp fork
\* at n > genesis.timestamp, that is not active at head; and next = 0 holds
\* exactly when every block-class fork and every timestamp fork later than
\* genesis.timestamp is active at head.
C28_NextIsSound ==
    (InForkId /\ IsSome(result)) =>
        LET s == Unwrap(spec)
            h == Unwrap(head)
            id == Unwrap(result)
        IN  /\ NextIsPending(s, h, id)
            /\ id.next = 0
                  <=> NotActive(s, BlockClassForks(s) \cup LaterTimestampForks(s), h) = {}

\* fork_id at a head that has reached the block of every block-class fork, Paris
\* with fork block 1 and London included, but not the timestamp of Shanghai:
\* next is that timestamp
C28_Witness ==
    /\ InForkId
    /\ IsSome(result)
    /\ fork(Unwrap(spec), "Paris") = TTD(Some(1), MaxTd)
    /\ fork(Unwrap(spec), "London") = Block(MaxBlock)
    /\ fork(Unwrap(spec), "Shanghai") = Timestamp(MaxTime)
    /\ Unwrap(head).number = MaxBlock
    /\ Unwrap(head).total_difficulty = 0
    /\ Unwrap(head).timestamp = 0
    /\ Unwrap(result).next = MaxTime

(***************************************************************************)
(* C29                                                                     *)
(***************************************************************************)
\* H2 is at or after H1 in number, timestamp and total difficulty, with the same
\* per-block difficulty
Advances(h1, h2) ==
    /\ h2.number >= h1.number
    /\ h2.timestamp >= h1.timestamp
    /\ h2.total_difficulty >= h1.total_difficulty
    /\ h2.difficulty = h1.difficulty

IsPrefixOf(a, b) == Len(a) <= Len(b) /\ \A i \in 1..Len(a) : a[i] = b[i]

\* C29: fork-hash progression.  The hash of fork_id(H1) is the genesis fork hash
\* with the activation points folded in order, and for every head H2 that is at
\* or after H1 in number, timestamp and total difficulty, with the same
\* per-block difficulty, the sequence of activation points folded into
\* fork_id(H1).hash is a prefix of the sequence folded into fork_id(H2).hash: as
\* the head advances the fork hash is only extended, never rewritten.
C29_ForkHashProgression ==
    (InForkId /\ IsSome(result)) =>
        LET s == Unwrap(spec)
            h1 == Unwrap(head)
            points == folded_points(s, h1)
        IN  /\ Unwrap(result).hash = ForkHashAddAll(ForkHashFrom(genesis_hash(s)), points, 1)
            /\ \A h2 \in HeadsOf(s) :
                  Advances(h1, h2) => IsPrefixOf(points, folded_points(s, h2))

\* fork_id of SEPOLIA at the last block before its merge netsplit block: the head
\* of the first Shanghai block advances it and folds the netsplit block and the
\* Shanghai timestamp after what the earlier head folded
C29_Witness ==
    /\ InForkId
    /\ IsSome(result)
    /\ Unwrap(spec) = SEPOLIA
    /\ Unwrap(head).number = 1735370
    /\ folded_points(SEPOLIA, Unwrap(head)) = <<>>
    /\ folded_points(SEPOLIA, [DefaultHead EXCEPT !.number = 1735372, !.timestamp = 1677557088])
          = <<1735371, 1677557088>>

(***************************************************************************)
(* C30                                                                     *)
(***************************************************************************)
\* the activation predicates give the same answers on both specs
SameActivation(a, b) ==
    /\ \A hf \in Hardfork :
          /\ \A n \in BlockInputs \cup StaticBlockInputs :
                active_at_block(fork(a, hf), n) = active_at_block(fork(b, hf), n)
          /\ \A td \in 0..MaxTd :
                active_at_ttd(fork(a, hf), td, 0) = active_at_ttd(fork(b, hf), td, 0)
          /\ \A t \in TimeInputs \cup StaticTimeInputs :
                is_fork_active_at_timestamp(a, hf, t) = is_fork_active_at_timestamp(b, hf, t)
    /\ \A t \in TimeInputs \cup StaticTimeInputs :
          /\ is_shanghai_active_at_timestamp(a, t) = is_shanghai_active_at_timestamp(b, t)
          /\ is_cancun_active_at_timestamp(a, t) = is_cancun_active_at_timestamp(b, t)

\* C30: builder round trip.  ChainSpecBuilder::from(&spec).build(), and
\* ChainSpecBuilder::mainnet().build() for MAINNET, keep the chain id, the genesis
\* and the hardfork map of the source spec but reset the cached genesis hash, the
\* recorded Paris activation and the deposit contract to absent and the base fee
\* params to the constant default, so on the rebuilt spec
\* final_paris_total_difficulty(n) is None for every n while the fork activation
\* predicates are unchanged.
C30_BuilderRoundTrip ==
    IsSome(spec) =>
        LET source == Unwrap(spec)
            rebuilt == build(builder_from(source))
        IN  /\ build_panic(builder_from(source)) = None
            /\ source = MAINNET => build(BuilderOfMainnet) = rebuilt
            /\ rebuilt.chain = source.chain
            /\ rebuilt.genesis = source.genesis
            /\ rebuilt.hardforks = source.hardforks
            /\ rebuilt.genesis_hash = None
            /\ rebuilt.paris_block_and_final_difficulty = None
            /\ rebuilt.deposit_contract = None
            /\ rebuilt.base_fee_params = ConstantEthereumBaseFee
            /\ \A n \in BlockInputs \cup StaticBlockInputs :
                  final_paris_total_difficulty(rebuilt, n) = None
            /\ SameActivation(source, rebuilt)

\* SEPOLIA after ChainSpecBuilder::from(&SEPOLIA).build(): the hardforks of
\* SEPOLIA with no cached genesis hash, no recorded Paris activation and no
\* deposit contract, where SEPOLIA itself answers Some at its Paris block
C30_Witness ==
    /\ IsSome(spec)
    /\ Unwrap(spec).chain = SEPOLIA.chain
    /\ Unwrap(spec).genesis = SEPOLIA.genesis
    /\ Unwrap(spec).hardforks = SEPOLIA.hardforks
    /\ Unwrap(spec).genesis_hash = None
    /\ Unwrap(spec).deposit_contract = None
    /\ final_paris_total_difficulty(SEPOLIA, 1450409) = Some(17)
    /\ final_paris_total_difficulty(Unwrap(spec), 1450409) = None

====
